---- MODULE Spec2Model ----
(***************************************************************************)
(* Model of the RAP reader of src/src/readers/rap.rs: RapReader::new (the  *)
(* header parser), RapReader::value_iterator (the data index lookup that   *)
(* opens a decode session) and RapValueIterator::next (the run-length grid *)
(* decoder).  The file is a sequence of bytes; offset o of the file is     *)
(* file[o + 1].                                                            *)
(*                                                                         *)
(* Number representation.  TLC's integers are 32-bit signed, so a u32 of   *)
(* the program is kept as two 16-bit limbs [hi, lo] (value hi * 65536 +    *)
(* lo) and a u64 as four limbs, least significant first.  u8 and u16 are   *)
(* plain integers.  A stream position (u64 in the program) is an integer   *)
(* that saturates at PosCap: every file of the model is far shorter, and a *)
(* read at any position beyond the end of the file fails the same way.     *)
(***************************************************************************)
EXTENDS Integers, Sequences, FiniteSets, TLC

VARIABLES
  file,      \* the bytes stored at `path`
  exists,    \* whether `path` can be opened for reading
  ioFailAt,  \* 0: the device never fails; k > 0: the k-th read call of RapReader::new fails
  pc,        \* position inside RapReader::new
  hdr,       \* the BufReader of RapReader::new: [pos, log]; log lists the reads done, <<offset, width>>
  parts,     \* the locals of RapReader::new: the parts parsed so far
  opened,    \* what RapReader::new returned: [st |-> "pending" | "ok" | "err", doc, err]
  plan,      \* the session ids the caller will create
  asked,     \* session id -> the timestamp value_iterator was called with (<<>>: not called)
  sess,      \* session id -> RapValueIterator state
  out        \* session id -> what next() returned so far, oldest first

vars == <<file, exists, ioFailAt, pc, hdr, parts, opened, plan, asked, sess, out>>

(***************************************************************************)
(* Bytes, bits and fixed-width integers                                    *)
(***************************************************************************)
Min(a, b) == IF a < b THEN a ELSE b

PosCap == 2^30

\* Bitwise AND of two non-negative integers (the `&` of expand_run_length).
RECURSIVE BitAnd(_, _)
BitAnd(a, b) ==
  IF a = 0 \/ b = 0 THEN 0
  ELSE (a % 2) * (b % 2) + 2 * BitAnd(a \div 2, b \div 2)

U32(h, l) == [hi |-> h, lo |-> l]
U32Of(n) == U32(n \div 65536, n % 65536)

\* A 16-bit decoder that takes the first byte as the high one.
u16_from_be_bytes(b) == 256 * b[1] + b[2]

\* u16::from_le_bytes, u32::from_le_bytes, u64::from_le_bytes
u16_from_le_bytes(b) == b[1] + 256 * b[2]
u32_from_le_bytes(b) == U32(b[3] + 256 * b[4], b[1] + 256 * b[2])
u64_from_le_bytes(b) ==
  << b[1] + 256 * b[2], b[3] + 256 * b[4], b[5] + 256 * b[6], b[7] + 256 * b[8] >>

\* `x as u64` / `x as usize` / `x as i64` of a u32, as a saturating position.
AsPos(u) == IF u.hi >= 16384 THEN PosCap ELSE Min(u.hi * 65536 + u.lo, PosCap)

\* u32 `+=` and `-=`: the wrapped result and whether the exact result left 0..2^32-1.
AddU32(a, b) ==
  LET l == a.lo + b.lo
      h == a.hi + b.hi + (l \div 65536)
  IN [v |-> U32(h % 65536, l % 65536), overflow |-> h >= 65536]

SubU32(a, b) ==
  LET l == a.lo - b.lo
      h == a.hi - b.hi + (l \div 65536)
  IN [v |-> U32(h % 65536, l % 65536), overflow |-> h < 0]

(***************************************************************************)
(* Errors: RapReaderError.  ctx is the message of an Unexpected, outermost *)
(* format! first; arg is the payload of the other variants.                *)
(***************************************************************************)
Unexpected(c) == [kind |-> "Unexpected", ctx |-> c, arg |-> <<>>]
OpenError == [kind |-> "Open", ctx |-> <<>>, arg |-> <<>>]
ObservationIntervalUnsupported(u) ==
  [kind |-> "ObservationIntervalUnsupported", ctx |-> <<>>, arg |-> <<u.hi, u.lo>>]
MapTypeUnsupported(v) == [kind |-> "MapTypeUnsupported", ctx |-> <<>>, arg |-> <<v>>]
CompressionMethodUnsupported(v) ==
  [kind |-> "CompressionMethodUnsupported", ctx |-> <<>>, arg |-> <<v>>]
DataDoesNotRecorded(dt) == [kind |-> "DataDoesNotRecorded", ctx |-> <<>>, arg |-> dt]

Ok(val, rd) == [ok |-> TRUE, v |-> val, r |-> rd, err |-> Unexpected(<<>>)]
Err(e, rd) == [ok |-> FALSE, v |-> <<>>, r |-> rd, err |-> e]
\* .map_err(|e| RapReaderError::Unexpected(format!("<c>{e}"))) on a failed result
MapErr(res, c) == Err(Unexpected(<<c>> \o res.err.ctx), res.r)

(***************************************************************************)
(* Primitive decoders over the header's reader r = [pos, log]              *)
(***************************************************************************)
\* Read::read_exact of n bytes.
read_exact(r, n) ==
  IF ioFailAt # 0 /\ Len(r.log) + 1 >= ioFailAt
    THEN Err(Unexpected(<<"io error">>), r)
  ELSE IF r.pos + n > Len(file)
    THEN Err(Unexpected(<<"failed to fill whole buffer">>), r)
  ELSE Ok(SubSeq(file, r.pos + 1, r.pos + n),
          [pos |-> r.pos + n, log |-> Append(r.log, <<r.pos, n>>)])

\* Seek::seek(SeekFrom::Current(n)), n >= 0, and Seek::seek(SeekFrom::Start(p)).
seek_current(r, n) == [r EXCEPT !.pos = Min(r.pos + n, PosCap)]
seek_start(r, p) == [r EXCEPT !.pos = Min(p, PosCap)]

\* `expr.map_err(|e| Unexpected(format!("<c>{e}")))?` and `expr?`, then the rest K of
\* the function body.
Try(res, c, K(_)) == IF res.ok THEN K(res) ELSE MapErr(res, c)
Pass(res, K(_)) == IF res.ok THEN K(res) ELSE res

\* The functions of the read_number! macro.
read_u8(r) == Try(read_exact(r, 1), "read_number", LAMBDA b : Ok(b.v[1], b.r))
read_u16(r) == Try(read_exact(r, 2), "read_number", LAMBDA b : Ok(u16_from_le_bytes(b.v), b.r))
read_u32(r) == Try(read_exact(r, 4), "read_number", LAMBDA b : Ok(u32_from_le_bytes(b.v), b.r))
read_u64(r) == Try(read_exact(r, 8), "read_number", LAMBDA b : Ok(u64_from_le_bytes(b.v), b.r))

(***************************************************************************)
(* Strings: a String is kept as its UTF-8 bytes.                           *)
(***************************************************************************)
InR(x, lo, hi) == lo <= x /\ x <= hi

\* String::from_utf8 succeeds: the bytes from index i on are well-formed UTF-8.
RECURSIVE Utf8From(_, _)
Utf8From(b, i) ==
  IF i > Len(b) THEN TRUE
  ELSE LET c == b[i]
           Cont(j, lo, hi) == j <= Len(b) /\ InR(b[j], lo, hi)
       IN IF c < 128 THEN Utf8From(b, i + 1)
          ELSE IF InR(c, 194, 223)
            THEN Cont(i + 1, 128, 191) /\ Utf8From(b, i + 2)
          ELSE IF c = 224
            THEN Cont(i + 1, 160, 191) /\ Cont(i + 2, 128, 191) /\ Utf8From(b, i + 3)
          ELSE IF InR(c, 225, 236) \/ InR(c, 238, 239)
            THEN Cont(i + 1, 128, 191) /\ Cont(i + 2, 128, 191) /\ Utf8From(b, i + 3)
          ELSE IF c = 237
            THEN Cont(i + 1, 128, 159) /\ Cont(i + 2, 128, 191) /\ Utf8From(b, i + 3)
          ELSE IF c = 240
            THEN Cont(i + 1, 144, 191) /\ Cont(i + 2, 128, 191)
                 /\ Cont(i + 3, 128, 191) /\ Utf8From(b, i + 4)
          ELSE IF InR(c, 241, 243)
            THEN Cont(i + 1, 128, 191) /\ Cont(i + 2, 128, 191)
                 /\ Cont(i + 3, 128, 191) /\ Utf8From(b, i + 4)
          ELSE IF c = 244
            THEN Cont(i + 1, 128, 143) /\ Cont(i + 2, 128, 191)
                 /\ Cont(i + 3, 128, 191) /\ Utf8From(b, i + 4)
          ELSE FALSE

\* Number of bytes of the White_Space character that ends s (0: s ends with none).
TrailingWhitespace(s) ==
  LET n == Len(s) IN
  IF n >= 1 /\ (InR(s[n], 9, 13) \/ s[n] = 32) THEN 1
  ELSE IF n >= 2 /\ s[n - 1] = 194 /\ s[n] \in {133, 160} THEN 2
  ELSE IF n >= 3 /\ ( \/ <<s[n - 2], s[n - 1], s[n]>> \in {<<225, 154, 128>>, <<226, 129, 159>>,
                                                           <<227, 128, 128>>}
                      \/ (s[n - 2] = 226 /\ s[n - 1] = 128
                          /\ (InR(s[n], 128, 138) \/ s[n] \in {168, 169, 175})) ) THEN 3
  ELSE 0

\* str::trim_end
RECURSIVE trim_end(_)
trim_end(s) ==
  LET k == TrailingWhitespace(s) IN
  IF k = 0 THEN s ELSE trim_end(SubSeq(s, 1, Len(s) - k))

read_str(r, bytes) ==
  Try(read_exact(r, bytes), "read_str: read_exact", LAMBDA b :
  IF ~Utf8From(b.v, 1) THEN Err(Unexpected(<<"read_str: from_utf8">>), b.r)
  ELSE Ok(trim_end(b.v), b.r))

(***************************************************************************)
(* Civil date-times: PrimitiveDateTime is <<year, month, day, hour, minute>>*)
(* (seconds are fixed at 0).                                               *)
(***************************************************************************)
\* A calendar in which every month has 31 days.
AlwaysThirtyOneDays(y, m) == 31

IsLeapYear(y) == y % 4 = 0 /\ (y % 100 # 0 \/ y % 400 = 0)
DaysInMonth(y, m) ==
  IF m \in {4, 6, 9, 11} THEN 30
  ELSE IF m = 2 THEN (IF IsLeapYear(y) THEN 29 ELSE 28)
  ELSE 31

read_date_time(r0) ==
  Try(read_u16(r0), "year", LAMBDA year :
  Try(read_u8(year.r), "month", LAMBDA month :
  \* Month::try_from(month)
  IF ~InR(month.v, 1, 12) THEN Err(Unexpected(<<"month_enum">>), month.r) ELSE
  Try(read_u8(month.r), "day", LAMBDA day :
  Try(read_u8(day.r), "hour", LAMBDA hour :
  Try(read_u8(hour.r), "minute", LAMBDA minute :
  \* Date::from_calendar_date(year as i32, month_enum, day)
  IF ~(year.v <= 9999 /\ InR(day.v, 1, DaysInMonth(year.v, month.v)))
    THEN Err(Unexpected(<<"date">>), minute.r) ELSE
  \* Time::from_hms(hour, minute, 0)
  IF ~(hour.v < 24 /\ minute.v < 60) THEN Err(Unexpected(<<"time">>), minute.r) ELSE
  Ok(<<year.v, month.v, day.v, hour.v, minute.v>>, minute.r))))))

(***************************************************************************)
(* Header parser: the five part readers                                    *)
(***************************************************************************)
Trailer == <<13, 10, 0>>

\* A reader that takes any three bytes as the trailer.
AnyTrailer(bytes) == TRUE

\* `bytes != [0x0d, 0x0a, 0x00]`, negated
TrailerOk(bytes) == bytes = Trailer

\* A trailer error worded as the failure of the read before it.
TrailerAsReadFailure == Unexpected(<<"trailer", "failed to fill whole buffer">>)

\* The error of a trailer that is not 0x0d 0x0a 0x00.
TrailerError == Unexpected(<<"trailer is not 0x0d 0x0a 0x00">>)

read_comment_part(r0) ==
  Try(read_str(r0, 6), "identifier", LAMBDA identifier :
  Try(read_str(identifier.r, 5), "version", LAMBDA version :
  Try(read_str(version.r, 66), "creator_comment", LAMBDA comment :
  Try(read_exact(comment.r, 3), "trailer", LAMBDA bytes :
  IF ~TrailerOk(bytes.v) THEN Err(TrailerError, bytes.r) ELSE
  Ok([identifier |-> identifier.v, version |-> version.v, creator_comment |-> comment.v],
     bytes.r)))))

\* A conversion that takes any count of entries.
AnyObservationTimes(value) == [ok |-> TRUE, v |-> value.lo]

\* ObservationTimes::try_from(u32)
ObservationTimes_try_from(value) ==
  IF value = U32(0, 24) THEN [ok |-> TRUE, v |-> 24]
  ELSE IF value = U32(0, 48) THEN [ok |-> TRUE, v |-> 48]
  ELSE [ok |-> FALSE, v |-> 0]

\* One round of the `for data_property in data_properties.iter_mut()` loop.
\* A reader that does not skip the compressed block.
skip_nothing(r, size) == r

\* `reader.seek(SeekFrom::Current(data_property.compressed_data_size as i64))`
skip_compressed_data(r, size) == seek_current(r, AsPos(size))

\* An entry reader that stays behind the data record it looked into.
stay_at_data_record(r, position) == r

\* `reader.seek(SeekFrom::Start(position))`: back to where the entry ended.
restore_position(r, position) == seek_start(r, position)

read_data_property(r0) ==
  Pass(read_date_time(r0), LAMBDA dt :
  Try(read_u16(dt.r), "observation_element", LAMBDA element :
  Try(read_u32(seek_current(element.r, 8)), "data_start_position", LAMBDA start :
  \* position = start.r.pos
  Try(read_u32(seek_start(start.r, AsPos(start.v))), "compressed_data_size", LAMBDA size :
  Try(read_u64(skip_compressed_data(size.r, size.v)), "radar_operation_statuses", LAMBDA radar :
  Try(read_u32(radar.r), "number_of_amedas", LAMBDA amedas :
  Ok([observation_date_time |-> dt.v,
      observation_element |-> element.v,
      data_start_position |-> start.v,
      compressed_data_size |-> size.v,
      radar_operation_statuses |-> radar.v,
      number_of_amedas |-> amedas.v],
     restore_position(amedas.r, start.r.pos))))))))

\* The loop: n more entries, appended to acc: one entry, or the first half of the
\* entries and then the rest; the first failing read ends it.
RECURSIVE read_data_properties(_, _, _)
read_data_properties(r, n, acc) ==
  IF n = 0 THEN Ok(acc, r)
  ELSE IF n = 1 THEN
    Pass(read_data_property(r), LAMBDA dp : Ok(Append(acc, dp.v), dp.r))
  ELSE
    Pass(read_data_properties(r, n \div 2, acc), LAMBDA first :
    read_data_properties(first.r, n - n \div 2, first.v))

read_data_index_part(r0) ==
  Try(read_u32(r0), "number_of_data", LAMBDA count :
  IF ~ObservationTimes_try_from(count.v).ok
    THEN Err(ObservationIntervalUnsupported(count.v), count.r) ELSE
  Pass(read_data_properties(count.r, ObservationTimes_try_from(count.v).v, <<>>), LAMBDA dps :
  Ok([number_of_data |-> ObservationTimes_try_from(count.v).v, data_properties |-> dps.v],
     dps.r)))

MAP_TYPE == 1
COMPRESSION_METHOD == 1

\* A reader that takes any compression method.
AnyCompressionMethod(v) == TRUE

\* A reader that takes any map type.
AnyMapType(v) == TRUE

\* `map_type != MAP_TYPE` and `compression_method != COMPRESSION_METHOD`, negated
MapTypeSupported(v) == v = MAP_TYPE
CompressionMethodSupported(v) == v = COMPRESSION_METHOD

read_grid_definition_part(r0) ==
  Try(read_u16(seek_current(r0, 2)), "map_type", LAMBDA map_type :
  IF ~MapTypeSupported(map_type.v) THEN Err(MapTypeUnsupported(map_type.v), map_type.r) ELSE
  Try(read_u32(map_type.r), "start_grid_latitude", LAMBDA lat :
  Try(read_u32(lat.r), "start_grid_longitude", LAMBDA lon :
  Try(read_u32(lon.r), "grid_width", LAMBDA width :
  Try(read_u32(width.r), "grid_height", LAMBDA height :
  Try(read_u16(height.r), "number_of_h_grids", LAMBDA nh :
  Try(read_u16(nh.r), "number_of_v_grids", LAMBDA nv :
  Ok([map_type |-> map_type.v,
      start_grid_latitude |-> lat.v,
      start_grid_longitude |-> lon.v,
      grid_width |-> width.v,
      grid_height |-> height.v,
      number_of_h_grids |-> nh.v,
      number_of_v_grids |-> nv.v],
     seek_current(nv.r, 16)))))))))

\* The `for prep in value_by_levels.iter_mut()` loop over n values: one value, or the
\* first half of the values and then the rest; the first failing read ends it.
RECURSIVE read_value_by_levels(_, _)
read_value_by_levels(r, n) ==
  IF n = 0 THEN Ok(<<>>, r)
  ELSE IF n = 1 THEN Try(read_u16(r), "value_by_levels", LAMBDA v : Ok(<<v.v>>, v.r))
  ELSE
    Pass(read_value_by_levels(r, n \div 2), LAMBDA first :
    Pass(read_value_by_levels(first.r, n - n \div 2), LAMBDA rest :
    Ok(first.v \o rest.v, rest.r)))

read_compression_part(r0) ==
  Try(read_u16(r0), "compression_method", LAMBDA method :
  IF ~CompressionMethodSupported(method.v)
    THEN Err(CompressionMethodUnsupported(method.v), method.r) ELSE
  Try(read_u16(method.r), "number_of_levels", LAMBDA levels :
  Pass(read_value_by_levels(levels.r, levels.v), LAMBDA values :
  Ok([compression_method |-> method.v,
      number_of_levels |-> levels.v,
      value_by_levels |-> values.v],
     values.r))))

\* readers.rs, the earlier draft: `vec![0u16, number_of_levels]` is the vector of the
\* two elements 0 and number_of_levels, whatever the level count is.
draft_value_by_levels_len(number_of_levels) == Len(<<0, number_of_levels>>)

\* readers.rs, the earlier draft of read_compression_part: the loop runs over the
\* vector above.
draft_read_compression_part(r0) ==
  Try(read_u16(r0), "compression_method", LAMBDA method :
  IF ~CompressionMethodSupported(method.v)
    THEN Err(CompressionMethodUnsupported(method.v), method.r) ELSE
  Try(read_u16(method.r), "number_of_levels", LAMBDA levels :
  Pass(read_value_by_levels(levels.r, draft_value_by_levels_len(levels.v)), LAMBDA values :
  Ok([compression_method |-> method.v,
      number_of_levels |-> levels.v,
      value_by_levels |-> values.v],
     values.r))))

\* The `for lr in level_repetitions.iter_mut()` loop over n pairs: one pair, or the
\* first half of the pairs and then the rest; the first failing read ends it.
RECURSIVE read_level_repetitions(_, _)
read_level_repetitions(r, n) ==
  IF n = 0 THEN Ok(<<>>, r)
  ELSE IF n = 1 THEN
    Try(read_u8(r), "level", LAMBDA level :
    Try(read_u8(level.r), "repetition", LAMBDA repetition :
    Ok(<<[level |-> level.v, repetition |-> repetition.v]>>, repetition.r)))
  ELSE
    Pass(read_level_repetitions(r, n \div 2), LAMBDA first :
    Pass(read_level_repetitions(first.r, n - n \div 2), LAMBDA rest :
    Ok(first.v \o rest.v, rest.r)))

read_level_repetitions_part(r0) ==
  Try(read_u16(r0), "number_of_level_repetitions", LAMBDA count :
  Pass(read_level_repetitions(count.r, count.v), LAMBDA lrs :
  Ok([number_of_level_repetitions |-> count.v, level_repetitions |-> lrs.v], lrs.r)))

\* readers.rs, the earlier draft of read_level_repetitions_part.
draft_read_level_repetitions_part(r0) ==
  Try(read_u16(r0), "number_of_level_repetitions", LAMBDA count :
  Pass(read_level_repetitions(count.r, count.v), LAMBDA lrs :
  Ok([number_of_level_repetitions |-> count.v, level_repetitions |-> lrs.v], lrs.r)))

(***************************************************************************)
(* RAP files: the byte layout the part readers expect, used to enumerate   *)
(* the files the model opens.                                              *)
(***************************************************************************)
Rep(b, n) == [i \in 1..n |-> b]
LE16(n) == <<n % 256, n \div 256>>
LE32(u) == LE16(u.lo) \o LE16(u.hi)

RECURSIVE Flatten(_)
Flatten(ss) ==
  IF Len(ss) = 0 THEN <<>>
  ELSE IF Len(ss) = 1 THEN ss[1]
  ELSE Flatten(SubSeq(ss, 1, Len(ss) \div 2)) \o Flatten(SubSeq(ss, Len(ss) \div 2 + 1, Len(ss)))

\* "RAP", "1.0" and a creator comment, space padded to 6, 5 and 66 bytes.
CommentBytes == <<82, 65, 80>> \o Rep(32, 3) \o <<49, 46, 48>> \o Rep(32, 2)
                \o <<74, 77, 65>> \o Rep(32, 63)

\* The timestamp of index entry i of a file of n entries: hourly from 01:00 when
\* n = 24, otherwise half-hourly from 00:30, on 2001-04-01 and the following day.
EntryTime(i, n) ==
  LET m == IF n = 24 THEN 60 * i ELSE 30 * i
  IN <<2001, 4, 1 + (m \div 1440), (m % 1440) \div 60, m % 60>>

\* Offset of the first byte after the header blocks.
HeaderLen(p) == 84 + 20 * p.count + 40 + 4 + 2 * Len(p.levels) + 2 + 2 * Len(p.lrs)

\* Offset of data record j (each record: 4-byte length, block, 8 + 4 bytes).
RECURSIVE RecordOffset(_, _)
RecordOffset(p, j) ==
  IF j = 1 THEN HeaderLen(p)
  ELSE RecordOffset(p, j - 1) + 16 + Len(p.blocks[j - 1])

\* Index entry i points to record 1, 2, ... in turn.
RecordOf(p, i) == ((i - 1) % Len(p.blocks)) + 1

IndexEntry(p, i) ==
  LET t == IF i \in DOMAIN p.times THEN p.times[i] ELSE EntryTime(i, p.count)
      o == IF i \in DOMAIN p.offsets THEN p.offsets[i]
           ELSE U32Of(RecordOffset(p, RecordOf(p, i)))
  IN LE16(t[1]) \o <<t[2], t[3], t[4], t[5]>> \o LE16(454) \o Rep(0, 8) \o LE32(o)

DataRecord(p, j) ==
  LET size == IF j \in DOMAIN p.sizes THEN p.sizes[j] ELSE U32Of(Len(p.blocks[j]))
  IN LE32(size) \o p.blocks[j] \o <<129, 128, 0, 0, 0, 0, 0, 1>> \o LE32(U32(0, 1300 + j))

GridBytes(p) ==
  <<0, 0>> \o LE16(p.mapType)
  \o LE32(p.grid.lat) \o LE32(p.grid.lon) \o LE32(p.grid.width) \o LE32(p.grid.height)
  \o LE16(p.grid.nh) \o LE16(p.grid.nv) \o Rep(0, 16)

FullFile(p) ==
  p.comment \o p.trailer \o LE32(p.countField)
  \o Flatten([i \in 1..p.count |-> IndexEntry(p, i)])
  \o GridBytes(p)
  \o LE16(p.method) \o LE16(Len(p.levels)) \o Flatten([i \in 1..Len(p.levels) |-> LE16(p.levels[i])])
  \o LE16(Len(p.lrs)) \o Flatten([i \in 1..Len(p.lrs) |-> <<p.lrs[i][1], p.lrs[i][2]>>])
  \o Flatten([j \in 1..Len(p.blocks) |-> DataRecord(p, j)])

\* The file of parameters p, cut to p.cut bytes when p.cut >= 0.
BuildFile(p) ==
  LET f == FullFile(p) IN
  IF p.cut >= 0 /\ p.cut < Len(f) THEN SubSeq(f, 1, p.cut) ELSE f

(***************************************************************************)
(* The Document (RapReader) and its accessors                              *)
(***************************************************************************)
NoDoc == <<>>

RapReader(ps) ==
  [comment_part |-> ps[1],
   data_index_part |-> ps[2],
   grid_definition_part |-> ps[3],
   compression_part |-> ps[4],
   level_repetitions_part |-> ps[5]]

data_properties == opened.doc.data_index_part.data_properties
grid_start_latitude == opened.doc.grid_definition_part.start_grid_latitude
grid_start_longitude == opened.doc.grid_definition_part.start_grid_longitude
grid_width == opened.doc.grid_definition_part.grid_width
grid_height == opened.doc.grid_definition_part.grid_height
number_of_h_grids == opened.doc.grid_definition_part.number_of_h_grids
number_of_v_grids == opened.doc.grid_definition_part.number_of_v_grids
value_by_levels == opened.doc.compression_part.value_by_levels
level_repetitions == opened.doc.level_repetitions_part.level_repetitions

(***************************************************************************)
(* Decode sessions: RapValueIterator.  The tables value_by_levels and      *)
(* level_repetitions are borrowed from the Document, so a session reads    *)
(* them through the accessors above.  current_value is <<v>> for Some(v)   *)
(* and <<>> for None.                                                      *)
(***************************************************************************)
SessionIds == {1, 2}

Zero32 == U32(0, 0)

NoSession ==
  [st |-> "none", err |-> Unexpected(<<>>), pos |-> 0, compressed_data_bytes |-> 0,
   min_longitude |-> Zero32, number_of_h_grids |-> 0,
   grid_height |-> Zero32, grid_width |-> Zero32,
   read_bytes |-> 0, current_latitude |-> Zero32, current_longitude |-> Zero32,
   h_moved_times |-> 0, current_value |-> <<>>, number_of_repetitions |-> 0]

RapValueIterator_new(reader, compressed_data_bytes, max_latitude, min_longitude, n_h_grids, g_height, g_width) ==
  [st |-> "iter", err |-> Unexpected(<<>>), pos |-> reader,
   compressed_data_bytes |-> compressed_data_bytes,
   min_longitude |-> min_longitude, number_of_h_grids |-> n_h_grids,
   grid_height |-> g_height, grid_width |-> g_width,
   read_bytes |-> 0, current_latitude |-> max_latitude, current_longitude |-> min_longitude,
   h_moved_times |-> 0, current_value |-> <<>>, number_of_repetitions |-> 0]

\* A search that returns the last match.
FindLastEntry(dps, dt) ==
  LET hits == {i \in 1..Len(dps) : dps[i].observation_date_time = dt}
  IN IF hits = {} THEN 0 ELSE CHOOSE i \in hits : \A j \in hits : i >= j

\* .iter().find(|dp| dp.observation_date_time == dt): the index of the first match, 0 if none.
FindEntry(dps, dt) ==
  LET hits == {i \in 1..Len(dps) : dps[i].observation_date_time = dt}
  IN IF hits = {} THEN 0 ELSE CHOOSE i \in hits : \A j \in hits : i <= j

\* A value_iterator whose cursor starts on the length field of the data record.
value_iterator_at_length(dt) ==
  LET i == FindEntry(data_properties, dt) IN
  IF i = 0 THEN [NoSession EXCEPT !.st = "err", !.err = DataDoesNotRecorded(dt)]
  ELSE IF ~exists THEN [NoSession EXCEPT !.st = "err", !.err = OpenError]
  ELSE LET dp == data_properties[i] IN
       RapValueIterator_new(AsPos(dp.data_start_position),
                            AsPos(dp.compressed_data_size),
                            grid_start_latitude, grid_start_longitude,
                            number_of_h_grids, grid_height, grid_width)

value_iterator(dt) ==
  LET i == FindEntry(data_properties, dt) IN
  IF i = 0 THEN [NoSession EXCEPT !.st = "err", !.err = DataDoesNotRecorded(dt)]
  ELSE IF ~exists THEN [NoSession EXCEPT !.st = "err", !.err = OpenError]
  ELSE LET dp == data_properties[i] IN
       RapValueIterator_new(Min(AsPos(dp.data_start_position) + 4, PosCap),
                            AsPos(dp.compressed_data_size),
                            grid_start_latitude, grid_start_longitude,
                            number_of_h_grids, grid_height, grid_width)

\* Slice indexing v[i] (0-based) and its bounds check.
InBounds(v, i) == i < Len(v)
Index(v, i) == v[i + 1]

\* A byte read that forgets `self.read_bytes += 1`.
read_run_length_byte_uncounted(it) ==
  IF it.pos + 1 > Len(file) THEN [ok |-> FALSE, v |-> 0, it |-> it]
  ELSE [ok |-> TRUE, v |-> file[it.pos + 1], it |-> [it EXCEPT !.pos = @ + 1]]

read_run_length_byte(it) ==
  IF it.pos + 1 > Len(file) THEN [ok |-> FALSE, v |-> 0, it |-> it]
  ELSE [ok |-> TRUE, v |-> file[it.pos + 1],
        it |-> [it EXCEPT !.pos = @ + 1, !.read_bytes = @ + 1]]

\* The results of expand_run_length: Ok(ExpandedValue), Err(Unexpected), or a panic
\* (an index out of the bounds of a table).
EvOk(v, n, i) == [kind |-> "ok", value |-> v, number_of_repetitions |-> n, it |-> i]
\* An error outcome that has already stepped the session one cell to the east.
EvErrMoved(c, i) ==
  [kind |-> "err", value |-> 0, number_of_repetitions |-> 0,
   it |-> [i EXCEPT !.h_moved_times = i.h_moved_times + 1],
   err |-> Unexpected(<<c>>)]

EvErr(c, i) == [kind |-> "err", value |-> 0, number_of_repetitions |-> 0, it |-> i,
                err |-> Unexpected(<<c>>)]
EvPanic(i) == [kind |-> "panic", value |-> 0, number_of_repetitions |-> 0, it |-> i]

\* An explicit-run test that looks at the top two bits only.
IsExplicitRunTwoBits(buf) == BitAnd(buf, 192) = 192

\* A repeat count of code + 1.
RepetitionsPlusOne(code) == code + 1

\* The four token tests, in the order of the if / else if chain.
IsTableRun(buf) == BitAnd(buf, 128) = 0
IsExplicitRun(buf) == BitAnd(buf, 224) = 192
IsFrequentSingle(buf) == BitAnd(buf, 192) = 128
IsRareSingle(buf) == buf = 254

\* `repetition as u16 + 2`
Repetitions(code) == code + 2

\* `(buf & 0x1F) as usize` and `(buf & 0x3F) as usize`
ExplicitRunLevel(buf) == BitAnd(buf, 31)
FrequentSingleLevel(buf) == BitAnd(buf, 63)

expand_run_length(it0) ==
  LET b == read_run_length_byte(it0)
      buf == b.v
  IN
  IF ~b.ok THEN EvErr("read_run_length_byte", b.it)
  ELSE IF IsTableRun(buf) THEN
    IF ~InBounds(level_repetitions, buf) THEN EvPanic(b.it)
    ELSE LET lr == Index(level_repetitions, buf) IN
         IF ~InBounds(value_by_levels, lr.level) THEN EvPanic(b.it)
         ELSE EvOk(Index(value_by_levels, lr.level), Repetitions(lr.repetition), b.it)
  ELSE IF IsExplicitRun(buf) THEN
    IF ~InBounds(value_by_levels, ExplicitRunLevel(buf)) THEN EvPanic(b.it)
    ELSE LET n == read_run_length_byte(b.it) IN
         IF ~n.ok THEN EvErr("read_run_length_byte", n.it)
         ELSE EvOk(Index(value_by_levels, ExplicitRunLevel(buf)), Repetitions(n.v), n.it)
  ELSE IF IsFrequentSingle(buf) THEN
    IF ~InBounds(value_by_levels, FrequentSingleLevel(buf)) THEN EvPanic(b.it)
    ELSE EvOk(Index(value_by_levels, FrequentSingleLevel(buf)), 1, b.it)
  ELSE IF IsRareSingle(buf) THEN
    LET level == read_run_length_byte(b.it) IN
    IF ~level.ok THEN EvErr("read_run_length_byte", level.it)
    ELSE IF ~InBounds(value_by_levels, level.v) THEN EvPanic(level.it)
    ELSE EvOk(Index(value_by_levels, level.v), 1, level.it)
  ELSE EvErr("unknown byte", b.it)

\* What next() hands back: Some(Ok(LocationValue)), Some(Err(e)), None; "panic" marks a
\* call that unwound instead of returning.  latitude and longitude are the fixed-point
\* u32 the LocationValue's degrees are computed from (value as f64 / 1_000_000.0).
CellItem(lat, lon, v) ==
  [kind |-> "cell", latitude |-> lat, longitude |-> lon, value |-> v, err |-> Unexpected(<<>>)]
ErrItem(e) ==
  [kind |-> "err", latitude |-> Zero32, longitude |-> Zero32, value |-> <<>>, err |-> e]
NoneItem ==
  [kind |-> "none", latitude |-> Zero32, longitude |-> Zero32, value |-> <<>>,
   err |-> Unexpected(<<>>)]
PanicItem ==
  [kind |-> "panic", latitude |-> Zero32, longitude |-> Zero32, value |-> <<>>,
   err |-> Unexpected(<<>>)]

\* An end test that looks at the byte budget only.
AtEndOfBudget(it) == it.compressed_data_bytes <= it.read_bytes

\* A conversion that keeps 0xFFFF as a value.
ToCurrentValueKeepAll(v) == <<v>>

\* A row test that lets a row run one cell too long.
RowDoneLate(it, moved) == it.number_of_h_grids < moved

\* An end test that asks for the consumed bytes to have passed the budget.
AtEndPastBudget(it) ==
  it.number_of_repetitions = 0 /\ it.compressed_data_bytes < it.read_bytes

\* `if self.number_of_repetitions == 0 && self.compressed_data_bytes <= self.read_bytes`
AtEnd(it) == it.number_of_repetitions = 0 /\ it.compressed_data_bytes <= it.read_bytes

\* `if ev.value < u16::MAX { Some(ev.value) } else { None }`
ToCurrentValue(v) == IF v < 65535 THEN <<v>> ELSE <<>>

\* `if self.number_of_h_grids <= self.h_moved_times`, after h_moved_times += 1
RowDone(it, moved) == it.number_of_h_grids <= moved

\* The grid move and the countdown at the end of next().  An overflowing `+=` or `-=`
\* panics in a build with overflow checks and wraps in one without: both outcomes.
MoveGrid(it, result) ==
  LET lon == AddU32(it.current_longitude, it.grid_width)
      moved == it.h_moved_times + 1
      wrap == RowDone(it, moved)
      lat == SubU32(it.current_latitude, it.grid_height)
      after == [it EXCEPT
                  !.current_longitude = IF wrap THEN it.min_longitude ELSE lon.v,
                  !.current_latitude = IF wrap THEN lat.v ELSE @,
                  !.h_moved_times = IF wrap THEN 0 ELSE moved,
                  !.number_of_repetitions = @ - 1]
  IN {[ret |-> result, it |-> after]}
     \cup (IF lon.overflow \/ (wrap /\ lat.overflow)
             THEN {[ret |-> PanicItem, it |-> [it EXCEPT !.st = "panic"]]}
             ELSE {})

\* A session that starts its byte budget afresh when it reports the end.
restart_at_end(it) == [it EXCEPT !.read_bytes = 0]

\* `return None;` at the end test: the session is returned as it was.
end_of_sequence(it) == it

\* Iterator::next: the set of its possible outcomes [ret, it].
next(it0) ==
  IF AtEnd(it0) THEN {[ret |-> NoneItem, it |-> end_of_sequence(it0)]}
  ELSE IF it0.number_of_repetitions = 0 THEN
    LET ev == expand_run_length(it0) IN
    IF ev.kind = "err" THEN {[ret |-> ErrItem(ev.err), it |-> ev.it]}
    ELSE IF ev.kind = "panic" THEN {[ret |-> PanicItem, it |-> [ev.it EXCEPT !.st = "panic"]]}
    ELSE LET it1 == [ev.it EXCEPT !.current_value = ToCurrentValue(ev.value),
                                  !.number_of_repetitions = ev.number_of_repetitions]
         IN MoveGrid(it1, CellItem(it1.current_latitude, it1.current_longitude,
                                   it1.current_value))
  ELSE MoveGrid(it0, CellItem(it0.current_latitude, it0.current_longitude,
                              it0.current_value))

(***************************************************************************)
(* Inputs: the files, devices and requests the model runs the reader on    *)
(***************************************************************************)
MaxStreamLen == 2
MaxPulls == 12

\* Grids: 2 x 2 and 3 x 3 around 48N 118E, and a 2 x 2 grid whose cells all fit a u32
\* but which starts less than two rows above latitude 0 and ends at longitude 2^32 - 1.
GridA == [lat |-> U32(732, 27648), lon |-> U32(1800, 35200),
          width |-> U32(0, 12500), height |-> U32(0, 8333), nh |-> 2, nv |-> 2]
GridB == [GridA EXCEPT !.nh = 3, !.nv = 3]
GridC == [GridA EXCEPT !.lat = U32(0, 10000), !.lon = U32(65535, 53035)]
Grids == {GridA, GridB, GridC}

\* Level values (level 3 is the 0xFFFF sentinel) and level-repetition pairs <<level, code>>
\* (entry 3 names level 9, which is not a level of Levels).
Levels == <<0, 7, 15, 65535>>
LevelReps == <<<<0, 0>>, <<1, 0>>, <<3, 1>>, <<9, 0>>, <<1, 255>>, <<2, 1>>>>

\* Token bytes: 0x01 0x03 0x05 0x7F (table runs), 0x81 0x83 (frequent singles),
\* 0xC2 (explicit run), 0xFE (rare single), 0xFF (no token).
TokenBytes == {1, 3, 5, 127, 129, 131, 194, 254, 255}
ScenarioBlock == <<5, 129, 194, 3>>
Blocks == (UNION {[1..n -> TokenBytes] : n \in 0..MaxStreamLen}) \cup {ScenarioBlock}

BaseFile ==
  [comment |-> CommentBytes, trailer |-> Trailer, count |-> 24, countField |-> U32(0, 24),
   times |-> <<>>, offsets |-> <<>>, sizes |-> <<>>, mapType |-> MAP_TYPE, grid |-> GridA,
   method |-> COMPRESSION_METHOD, levels |-> Levels, lrs |-> LevelReps,
   blocks |-> <<ScenarioBlock, <<129>>>>, cut |-> -1]

Input(f) == [file |-> f, exists |-> TRUE, ioFailAt |-> 0]

\* Files that open: every block as the first data record on the 2 x 2 grid, the blocks
\* of at most one byte and the scenario block on every grid.
ShortBlocks == {b \in Blocks : Len(b) <= 1} \cup {ScenarioBlock}
GoodInputs ==
  {Input([BaseFile EXCEPT !.blocks[1] = b]) : b \in Blocks}
  \cup {Input([BaseFile EXCEPT !.grid = g, !.blocks[1] = b]) : g \in Grids, b \in ShortBlocks}
  \cup {Input([BaseFile EXCEPT !.count = 48, !.countField = U32(0, 48)])}
  \* entries 1 and 2 carry the same time, and no entry carries the time of hour 2
  \cup {Input([BaseFile EXCEPT !.times = (2 :> EntryTime(1, 24))])}
  \* the first record declares fewer bytes than its block has: 2 of 4, and none
  \cup {Input([BaseFile EXCEPT !.sizes = (1 :> U32(0, n))]) : n \in {0, 2}}
  \* leap days
  \cup {Input([BaseFile EXCEPT !.times = (3 :> <<2000, 2, 29, 3, 0>>) @@ (4 :> <<2004, 2, 29, 23, 59>>)])}
  \* level-repetition tables of 128 and of 129 pairs
  \cup {Input([BaseFile EXCEPT !.lrs = [i \in 1..n |-> <<i % 4, (i * 37) % 256>>]]) :
          n \in {128, 129}}

\* Files and devices on which RapReader::new fails somewhere.
BadFiles ==
  {[BaseFile EXCEPT !.trailer = <<13, 10, 1>>],
   [BaseFile EXCEPT !.comment[70] = 255],
   [BaseFile EXCEPT !.countField = U32(0, 25)],
   [BaseFile EXCEPT !.countField = U32(1, 24)],
   [BaseFile EXCEPT !.count = 2, !.countField = U32(0, 2)],
   [BaseFile EXCEPT !.times = (3 :> <<2001, 13, 1, 3, 0>>)],
   [BaseFile EXCEPT !.times = (3 :> <<2001, 2, 29, 3, 0>>)],
   [BaseFile EXCEPT !.times = (24 :> <<2001, 4, 1, 24, 0>>)],
   [BaseFile EXCEPT !.times = (1 :> <<2001, 0, 1, 1, 0>>)],
   [BaseFile EXCEPT !.times = (2 :> <<2001, 4, 31, 2, 0>>)],
   [BaseFile EXCEPT !.times = (2 :> <<2001, 4, 0, 2, 0>>)],
   [BaseFile EXCEPT !.times = (5 :> <<2001, 4, 1, 5, 60>>)],
   [BaseFile EXCEPT !.times = (4 :> <<1900, 2, 29, 4, 0>>) @@ (6 :> <<2001, 13, 1, 6, 0>>)],
   [BaseFile EXCEPT !.times = (24 :> <<2001, 255, 255, 255, 255>>), !.mapType = 2],
   [BaseFile EXCEPT !.offsets = (2 :> U32(1, 0))],
   [BaseFile EXCEPT !.sizes = (2 :> U32(0, 2))],
   [BaseFile EXCEPT !.mapType = 2],
   [BaseFile EXCEPT !.method = 0],
   \* two defects in one file, and a defect in the last field the file has
   [BaseFile EXCEPT !.trailer = <<10, 13, 0>>],
   [BaseFile EXCEPT !.trailer = <<13, 10, 1>>, !.countField = U32(0, 25)],
   [BaseFile EXCEPT !.trailer = <<0, 0, 0>>, !.cut = 80],
   [BaseFile EXCEPT !.countField = U32(0, 0)],
   [BaseFile EXCEPT !.countField = U32(0, 25), !.mapType = 2],
   [BaseFile EXCEPT !.countField = U32(0, 47), !.cut = 84],
   [BaseFile EXCEPT !.mapType = 0, !.method = 2],
   [BaseFile EXCEPT !.mapType = 2, !.cut = 84 + 20 * 24 + 4],
   [BaseFile EXCEPT !.method = 2, !.cut = 84 + 20 * 24 + 42]}
  \cup {[BaseFile EXCEPT !.cut = n] :
          n \in {0, 8, 79, 82, 90, 84 + 20 * 24 + 10, 84 + 20 * 24 + 40 + 3,
                 HeaderLen(BaseFile) - 7, HeaderLen(BaseFile) - 1, HeaderLen(BaseFile) + 2,
                 HeaderLen(BaseFile) + 30}}

BadInputs ==
  {Input(f) : f \in BadFiles}
  \cup {[Input(BaseFile) EXCEPT !.exists = FALSE]}
  \cup {[Input(BaseFile) EXCEPT !.ioFailAt = k] : k \in {1, 4, 5, 30, 250, 260}}

\* Files for the token decoder alone: a first block of every leading byte b followed by
\* a second byte, under the small tables, under tables of 64 levels (level 33 the 0xFFFF
\* sentinel) and 128 level-repetition pairs, and under empty tables.
SecondBytes == {0, 3, 255}
WideLevels == [j \in 1..64 |-> IF j = 34 THEN 65535 ELSE (j * 1021) % 65535]
WideLevelReps == [i \in 1..128 |-> <<(i * 5) % 64, (i * 37) % 256>>]
TableSets ==
  {[levels |-> Levels, lrs |-> LevelReps],
   [levels |-> WideLevels, lrs |-> WideLevelReps],
   [levels |-> <<>>, lrs |-> <<>>]}
TokenInputs ==
  {Input([BaseFile EXCEPT !.levels = t.levels, !.lrs = t.lrs, !.blocks[1] = <<b, r>>]) :
     b \in 0..255, r \in SecondBytes, t \in TableSets}

\* The timestamps a caller asks for: entries 1 and 2 of an hourly file and one no file has.
RequestTimes == {EntryTime(1, 24), EntryTime(2, 24), <<2001, 4, 1, 1, 1>>, <<2001, 4, 3, 0, 0>>}

(***************************************************************************)
(* The state machine                                                       *)
(***************************************************************************)
Pending == [st |-> "pending", doc |-> NoDoc, err |-> Unexpected(<<>>)]
Failed(e) == [st |-> "err", doc |-> NoDoc, err |-> e]

InitWith(inputs, ids) ==
  /\ \E i \in inputs :
       /\ file = BuildFile(i.file)
       /\ exists = i.exists
       /\ ioFailAt = i.ioFailAt
  /\ pc = "open"
  /\ hdr = [pos |-> 0, log |-> <<>>]
  /\ parts = <<>>
  /\ opened = Pending
  /\ plan = ids
  /\ asked = [s \in SessionIds |-> <<>>]
  /\ sess = [s \in SessionIds |-> NoSession]
  /\ out = [s \in SessionIds |-> <<>>]

Init == InitWith(GoodInputs \cup BadInputs, {1})

\* RapReader::new, lines 46-51: open the file and wrap it in a BufReader.
OpenFile ==
  /\ pc = "open"
  /\ IF exists
       THEN pc' = "comment" /\ UNCHANGED opened
       ELSE pc' = "done" /\ opened' = Failed(OpenError)
  /\ UNCHANGED <<file, exists, ioFailAt, hdr, parts, plan, asked, sess, out>>

\* `let part = read_..._part(&mut reader)?;`: keep the part, or return the error and
\* drop every local.
PartStep(res, nextPc) ==
  /\ hdr' = res.r
  /\ IF res.ok
       THEN parts' = Append(parts, res.v) /\ pc' = nextPc /\ UNCHANGED opened
       ELSE parts' = <<>> /\ pc' = "done" /\ opened' = Failed(res.err)
  /\ UNCHANGED <<file, exists, ioFailAt, plan, asked, sess, out>>

ReadCommentPart == pc = "comment" /\ PartStep(read_comment_part(hdr), "data_index")
ReadDataIndexPart == pc = "data_index" /\ PartStep(read_data_index_part(hdr), "grid_definition")
ReadGridDefinitionPart ==
  pc = "grid_definition" /\ PartStep(read_grid_definition_part(hdr), "compression")
ReadCompressionPart ==
  pc = "compression" /\ PartStep(read_compression_part(hdr), "level_repetitions")

\* The last part and `Ok(Self { .. })`.
ReadLevelRepetitionsPart ==
  /\ pc = "level_repetitions"
  /\ LET res == read_level_repetitions_part(hdr) IN
       /\ hdr' = res.r
       /\ parts' = <<>>
       /\ pc' = "done"
       /\ opened' = IF res.ok
                      THEN [st |-> "ok", doc |-> RapReader(Append(parts, res.v)),
                            err |-> Unexpected(<<>>)]
                      ELSE Failed(res.err)
  /\ UNCHANGED <<file, exists, ioFailAt, plan, asked, sess, out>>

\* The environment: after the Document was built and before any session exists, the
\* file at `path` is cut short inside the first entry's compressed block.
TruncateFile ==
  /\ opened.st = "ok"
  /\ \A s \in SessionIds : sess[s].st = "none"
  /\ \E k \in 0..1 :
       LET n == AsPos(data_properties[1].data_start_position) + 4 + k IN
       /\ n < Len(file)
       /\ Len(file) = AsPos(data_properties[2].data_start_position) + 16
                      + AsPos(data_properties[2].compressed_data_size)
       /\ file' = SubSeq(file, 1, n)
  /\ UNCHANGED <<exists, ioFailAt, pc, hdr, parts, opened, plan, asked, sess, out>>

\* The environment: after the Document was built and before any session exists, the
\* file at `path` is removed, so that value_iterator cannot open it again.
RemoveFile ==
  /\ opened.st = "ok"
  /\ exists
  /\ \A s \in SessionIds : sess[s].st = "none"
  /\ exists' = FALSE
  /\ UNCHANGED <<file, ioFailAt, pc, hdr, parts, opened, plan, asked, sess, out>>

\* A value_iterator that takes the entries before the one it serves out of the index.
ValueIteratorConsuming(s, dt) ==
  /\ opened.st = "ok"
  /\ s \in plan
  /\ sess[s].st = "none"
  /\ asked' = [asked EXCEPT ![s] = dt]
  /\ sess' = [sess EXCEPT ![s] = value_iterator(dt)]
  /\ opened' = [opened EXCEPT !.doc.data_index_part.data_properties =
                  SubSeq(@, Min(FindEntry(@, dt) + 1, Len(@)), Len(@))]
  /\ UNCHANGED <<file, exists, ioFailAt, pc, hdr, parts, plan, out>>

\* RapReader::value_iterator(dt) for the caller's session s.
ValueIterator(s, dt) ==
  /\ opened.st = "ok"
  /\ s \in plan
  /\ sess[s].st = "none"
  /\ asked' = [asked EXCEPT ![s] = dt]
  /\ sess' = [sess EXCEPT ![s] = value_iterator(dt)]
  /\ UNCHANGED <<file, exists, ioFailAt, pc, hdr, parts, opened, plan, out>>

\* A pull through one file handle that all sessions share: the cursor moves for all.
PullSharedCursor(s) ==
  /\ sess[s].st = "iter"
  /\ Len(out[s]) < MaxPulls
  /\ \E o \in next(sess[s]) :
       /\ sess' = [t \in SessionIds |->
                    IF t = s THEN o.it
                    ELSE IF sess[t].st = "iter" THEN [sess[t] EXCEPT !.pos = o.it.pos]
                    ELSE sess[t]]
       /\ out' = [out EXCEPT ![s] = Append(@, o.ret)]
  /\ UNCHANGED <<file, exists, ioFailAt, pc, hdr, parts, opened, plan, asked>>

\* RapValueIterator::next on session s.
Pull(s) ==
  /\ sess[s].st = "iter"
  /\ Len(out[s]) < MaxPulls
  /\ \E o \in next(sess[s]) :
       /\ sess' = [sess EXCEPT ![s] = o.it]
       /\ out' = [out EXCEPT ![s] = Append(@, o.ret)]
  /\ UNCHANGED <<file, exists, ioFailAt, pc, hdr, parts, opened, plan, asked>>

Next ==
  \/ OpenFile
  \/ ReadCommentPart
  \/ ReadDataIndexPart
  \/ ReadGridDefinitionPart
  \/ ReadCompressionPart
  \/ ReadLevelRepetitionsPart
  \/ TruncateFile
  \/ RemoveFile
  \/ \E s \in SessionIds, dt \in RequestTimes : ValueIterator(s, dt)
  \/ \E s \in SessionIds : Pull(s)

Spec == Init /\ [][Next]_vars

\* output_csv_with_geom: `for lv in iterator.flatten()` pulls the session until next()
\* returns None; flatten drops the errors and hands the cells on to the loop body, which
\* writes them out.  The session is all the loop keeps: of what was pulled, `out` keeps
\* only the None that ends the loop.  A pull that returns an error and leaves the
\* session as it was changes no variable: the loop that repeats it is a behaviour that
\* stutters for ever.
Drain(s) ==
  /\ sess[s].st = "iter"
  /\ out[s] = <<>>
  /\ \E o \in next(sess[s]) :
       /\ sess' = [sess EXCEPT ![s] = o.it]
       /\ out' = [out EXCEPT ![s] = IF o.ret.kind = "none" THEN <<o.ret>> ELSE @]
  /\ UNCHANGED <<file, exists, ioFailAt, pc, hdr, parts, opened, plan, asked>>

\* The command line tool: open the file, take the session of one time, write it out.
\* The loop, once it runs, keeps running: a pull that is due is made.
NextDrain ==
  \/ OpenFile
  \/ ReadCommentPart
  \/ ReadDataIndexPart
  \/ ReadGridDefinitionPart
  \/ ReadCompressionPart
  \/ ReadLevelRepetitionsPart
  \/ TruncateFile
  \/ \E s \in SessionIds, dt \in RequestTimes : ValueIterator(s, dt)
  \/ \E s \in SessionIds : Drain(s)
SpecDrain ==
  InitWith(GoodInputs, {1}) /\ [][NextDrain]_vars /\ \A s \in SessionIds : WF_vars(Drain(s))

\* The functions of read_number! on their own: the numbers of a short byte file are
\* read one after the other, each with any of the four functions, up to the first error.
\* `parts` keeps what each call returned: a value as its 16-bit limbs, low limb first.
MaxReadLen == 3
ReadBytes == {0, 1, 128, 255}
ReadFiles ==
  (UNION {[1..n -> ReadBytes] : n \in 0..MaxReadLen})
  \cup {<<1, 0, 128, 255, 7>>, <<1, 2, 3, 4, 5, 6, 7, 8>>, <<255, 255, 255, 255, 255, 255, 255, 255>>,
        <<254, 1, 2, 3, 4, 5, 6, 7, 8, 9, 10>>}
InitRead ==
  /\ file \in ReadFiles
  /\ exists = TRUE
  /\ ioFailAt \in {0, 2}
  /\ pc = "read"
  /\ hdr = [pos |-> 0, log |-> <<>>]
  /\ parts = <<>>
  /\ opened = Pending
  /\ plan = {}
  /\ asked = [s \in SessionIds |-> <<>>]
  /\ sess = [s \in SessionIds |-> NoSession]
  /\ out = [s \in SessionIds |-> <<>>]

Limbs(w, v) == IF w <= 2 THEN <<v>> ELSE IF w = 4 THEN <<v.lo, v.hi>> ELSE v
ReadNumber(w, res) ==
  /\ pc = "read"
  /\ hdr' = res.r
  /\ parts' = Append(parts, [width |-> w, at |-> hdr.pos, ok |-> res.ok,
                              v |-> IF res.ok THEN Limbs(w, res.v) ELSE <<>>,
                              err |-> res.err])
  /\ pc' = IF res.ok THEN "read" ELSE "done"
  /\ UNCHANGED <<file, exists, ioFailAt, opened, plan, asked, sess, out>>
ReadU8 == ReadNumber(1, read_u8(hdr))
ReadU16 == ReadNumber(2, read_u16(hdr))
ReadU32 == ReadNumber(4, read_u32(hdr))
ReadU64 == ReadNumber(8, read_u64(hdr))
NextRead == ReadU8 \/ ReadU16 \/ ReadU32 \/ ReadU64
SpecRead == InitRead /\ [][NextRead]_vars

\* Two sessions of one Document, started and pulled in any order.
PairInputs ==
  {Input(BaseFile),
   Input([BaseFile EXCEPT !.blocks[1] = <<3, 255>>]),
   Input([BaseFile EXCEPT !.grid = GridB, !.blocks[1] = <<194, 3, 1>>]),
   Input([BaseFile EXCEPT !.times = (2 :> EntryTime(1, 24))])}
InitPair == InitWith(PairInputs, SessionIds)
SpecPair == InitPair /\ [][Next]_vars

\* The reader on the token files: the file is opened and its first entry decoded.
InitExpand == InitWith(TokenInputs, {1})

NextExpand ==
  \/ OpenFile
  \/ ReadCommentPart
  \/ ReadDataIndexPart
  \/ ReadGridDefinitionPart
  \/ ReadCompressionPart
  \/ ReadLevelRepetitionsPart
  \/ \E s \in SessionIds : ValueIterator(s, EntryTime(1, 24))
  \/ \E s \in SessionIds : Pull(s)

SpecExpand == InitExpand /\ [][NextExpand]_vars

(***************************************************************************)
(* What a session was asked to decode, read off the file and the Document  *)
(* without running the decoder                                             *)
(***************************************************************************)
Asked(s) == asked[s] # <<>> /\ sess[s].st \in {"iter", "panic"}
EntryOf(s) == data_properties[FindEntry(data_properties, asked[s])]
BlockStart(s) == AsPos(EntryOf(s).data_start_position) + 4
BlockSize(s) == AsPos(EntryOf(s).compressed_data_size)
\* The bytes of the block that are in the file.
BlockBytes(s) == SubSeq(file, BlockStart(s) + 1, Min(BlockStart(s) + BlockSize(s), Len(file)))

\* The token that starts at B[i], by the grammar table of the format description: its
\* level value, repeat count and length in bytes; ok is FALSE when B[i] starts no token,
\* the token's second byte is missing, or an index it names is outside its table.
NoToken == [ok |-> FALSE, value |-> 0, reps |-> 0, bytes |-> 1]
Token(v, n, len) == [ok |-> TRUE, value |-> v, reps |-> n, bytes |-> len]

TokenAt(B, i, levels, lrs) ==
  LET b == B[i] IN
  IF b <= 127 THEN
    IF b < Len(lrs) /\ lrs[b + 1].level < Len(levels)
      THEN Token(levels[lrs[b + 1].level + 1], lrs[b + 1].repetition + 2, 1) ELSE NoToken
  ELSE IF b <= 191 THEN
    IF b - 128 < Len(levels) THEN Token(levels[b - 128 + 1], 1, 1) ELSE NoToken
  ELSE IF b <= 223 THEN
    IF i + 1 <= Len(B) /\ b - 192 < Len(levels)
      THEN Token(levels[b - 192 + 1], B[i + 1] + 2, 2) ELSE NoToken
  ELSE IF b = 254 THEN
    IF i + 1 <= Len(B) /\ B[i + 1] < Len(levels)
      THEN Token(levels[B[i + 1] + 1], 1, 2) ELSE NoToken
  ELSE NoToken

\* The tokens of B from position i on, up to the first position that starts none.
RECURSIVE TokensFrom(_, _, _, _)
TokensFrom(B, i, levels, lrs) ==
  IF i > Len(B) THEN <<>>
  ELSE IF ~TokenAt(B, i, levels, lrs).ok THEN <<>>
  ELSE <<TokenAt(B, i, levels, lrs)>>
       \o TokensFrom(B, i + TokenAt(B, i, levels, lrs).bytes, levels, lrs)

RECURSIVE SumBytes(_)
SumBytes(toks) == IF toks = <<>> THEN 0 ELSE Head(toks).bytes + SumBytes(Tail(toks))

\* Each token's level value, repeated as often as the token says.
RECURSIVE ExpandTokens(_)
ExpandTokens(toks) ==
  IF toks = <<>> THEN <<>>
  ELSE [k \in 1..Head(toks).reps |-> Head(toks).value] \o ExpandTokens(Tail(toks))

TokensOf(s) == TokensFrom(BlockBytes(s), 1, value_by_levels, level_repetitions)
\* The block is in the file to its last byte and is a row of whole tokens.
WholeBlock(s) ==
  /\ Len(BlockBytes(s)) = BlockSize(s)
  /\ SumBytes(TokensOf(s)) = BlockSize(s)

\* A level value as a cell shows it: 0xFFFF is "no value".
CellValue(v) == IF v = 65535 THEN <<>> ELSE <<v>>
CellValues(raw) == [k \in 1..Len(raw) |-> CellValue(raw[k])]

IsCell(x) == x.kind = "cell"
CellsOf(s) == SelectSeq(out[s], IsCell)
ValuesOf(s) == [k \in 1..Len(CellsOf(s)) |-> CellsOf(s)[k].value]
Ended(s) == out[s] # <<>> /\ out[s][Len(out[s])].kind = "none"
Clean(s) == \A k \in 1..Len(out[s]) : out[s][k].kind \in {"cell", "none"}
\* The coordinate update of a pull on `it` leaves the u32 range.
Overflows(it) ==
  \/ AddU32(it.current_longitude, it.grid_width).overflow
  \/ /\ RowDone(it, it.h_moved_times + 1)
     /\ SubU32(it.current_latitude, it.grid_height).overflow
\* No pull returned an error, and none unwound except, as the last one, on an
\* overflowing coordinate update.
CleanButOverflow(s) ==
  \A k \in 1..Len(out[s]) :
    \/ out[s][k].kind \in {"cell", "none"}
    \/ out[s][k].kind = "panic" /\ k = Len(out[s]) /\ Overflows(sess[s])
IsPrefix(a, b) == Len(a) <= Len(b) /\ a = SubSeq(b, 1, Len(a))

(***************************************************************************)
(* Properties                                                              *)
(***************************************************************************)

\* C1: a session on a block of whole tokens that reaches end-of-sequence without an
\* error has yielded exactly number_of_h_grids * number_of_v_grids cells.
C1_CellCount ==
  \A s \in SessionIds :
    (Asked(s) /\ Ended(s) /\ Clean(s) /\ WholeBlock(s) /\ BlockSize(s) > 0)
      => Len(CellsOf(s)) = number_of_h_grids * number_of_v_grids

\* C3: on a block of whole tokens no pull fails (unless a coordinate update overflows
\* and the call unwinds), the values of the cells yielded so far
\* are the start of the concatenation of the tokens' expansions, and at end-of-sequence
\* they are all of it and the bytes consumed equal the compressed size; the block
\* 05 81 C2 03 gives 15 15 15 7 15 15 15 15 15.
C3_ValueSequence ==
  \A s \in SessionIds :
    (Asked(s) /\ WholeBlock(s)) =>
      /\ CleanButOverflow(s)
      /\ IsPrefix(ValuesOf(s), CellValues(ExpandTokens(TokensOf(s))))
      /\ Ended(s) =>
           /\ ValuesOf(s) = CellValues(ExpandTokens(TokensOf(s)))
           /\ sess[s].read_bytes = BlockSize(s)
           /\ (BlockBytes(s) = ScenarioBlock /\ value_by_levels = Levels)
                => ValuesOf(s) = <<<<15>>, <<15>>, <<15>>, <<7>>,
                                   <<15>>, <<15>>, <<15>>, <<15>>, <<15>>>>

C3_Witness ==
  \E s \in SessionIds :
    /\ Asked(s) /\ Ended(s)
    /\ BlockBytes(s) = ScenarioBlock
    /\ Len(CellsOf(s)) = 9
    /\ sess[s].read_bytes = 4

\* A pull on s from a state with repeats buffered adds one item to out[s].
PullStep(s) == sess[s].st = "iter" /\ Len(out'[s]) = Len(out[s]) + 1
Returned(s) == out'[s][Len(out'[s])]
\* C4: a pull made while repeats are buffered reads no byte and yields a cell with the
\* buffered value, whether or not the byte budget is used up (unless the coordinate
\* update overflows and the call unwinds); a pull returns end-of-sequence exactly when
\* the repeat count is zero and the bytes consumed have reached the compressed size.
C4_DrainBuffered ==
  [][\A s \in SessionIds : PullStep(s) =>
       /\ sess[s].number_of_repetitions > 0 =>
            /\ sess'[s].read_bytes = sess[s].read_bytes
            /\ sess'[s].pos = sess[s].pos
            /\ \/ /\ Returned(s).kind = "cell"
                  /\ Returned(s).value = sess[s].current_value
                  /\ sess'[s].number_of_repetitions = sess[s].number_of_repetitions - 1
               \/ Returned(s).kind = "panic" /\ Overflows(sess[s])
       /\ Returned(s).kind = "none"
            <=> /\ sess[s].number_of_repetitions = 0
                /\ sess[s].read_bytes >= sess[s].compressed_data_bytes]_vars

\* The budget is used up, a repeat is still buffered, and the pull before this state
\* yielded a cell from the buffer.
C4_Witness ==
  \E s \in SessionIds :
    /\ Asked(s) /\ WholeBlock(s)
    /\ sess[s].read_bytes = sess[s].compressed_data_bytes
    /\ sess[s].number_of_repetitions = 1
    /\ Len(out[s]) >= 2
    /\ out[s][Len(out[s])].kind = "cell"
    /\ Len(TokensOf(s)) >= 1
    /\ TokensOf(s)[Len(TokensOf(s))].reps >= 3

\* u - n * w and u + n * w over the integers, limb by limb; hi outside 0..65535 says
\* the result is no u32.
MinusTimes(u, n, w) ==
  [hi |-> u.hi - n * w.hi + ((u.lo - n * w.lo) \div 65536), lo |-> (u.lo - n * w.lo) % 65536]
PlusTimes(u, n, w) ==
  [hi |-> u.hi + n * w.hi + ((u.lo + n * w.lo) \div 65536), lo |-> (u.lo + n * w.lo) % 65536]
IsU32(u) == u.hi \in 0..65535

\* The coordinates the format description gives the k-th cell (k from 0).
RowMajorLatitude(k) == MinusTimes(grid_start_latitude, k \div number_of_h_grids, grid_height)
RowMajorLongitude(k) == PlusTimes(grid_start_longitude, k % number_of_h_grids, grid_width)

LastOfGrid == number_of_h_grids * number_of_v_grids
SouthEastLatitude == MinusTimes(grid_start_latitude, number_of_v_grids - 1, grid_height)
SouthEastLongitude == PlusTimes(grid_start_longitude, number_of_h_grids - 1, grid_width)

\* C5: with number_of_h_grids >= 1, the k-th cell yielded (k from 0) lies at latitude
\* start - (k div h) * height and longitude start + (k mod h) * width, whenever those
\* are u32 values; so the first cell lies at (start latitude, start longitude) and cell
\* h * v - 1 at (start - (v - 1) * height, start + (h - 1) * width).
C5_RowMajor ==
  \A s \in SessionIds :
    Asked(s) =>
      /\ \A k \in 0..(Len(CellsOf(s)) - 1) :
           /\ number_of_h_grids >= 1
           /\ IsU32(RowMajorLatitude(k)) => CellsOf(s)[k + 1].latitude = RowMajorLatitude(k)
           /\ IsU32(RowMajorLongitude(k)) => CellsOf(s)[k + 1].longitude = RowMajorLongitude(k)
      /\ Len(CellsOf(s)) >= 1 =>
           /\ CellsOf(s)[1].latitude = grid_start_latitude
           /\ CellsOf(s)[1].longitude = grid_start_longitude
      /\ (Len(CellsOf(s)) >= LastOfGrid /\ LastOfGrid >= 1) =>
           /\ IsU32(SouthEastLatitude) => CellsOf(s)[LastOfGrid].latitude = SouthEastLatitude
           /\ IsU32(SouthEastLongitude) => CellsOf(s)[LastOfGrid].longitude = SouthEastLongitude

\* A session has yielded the last cell of a 3 x 3 grid, two rows down and two cells right.
C5_Witness ==
  \E s \in SessionIds :
    /\ Asked(s)
    /\ number_of_h_grids = 3 /\ number_of_v_grids = 3
    /\ Len(CellsOf(s)) = 9
    /\ CellsOf(s)[9].latitude = MinusTimes(grid_start_latitude, 2, grid_height)
    /\ CellsOf(s)[9].longitude = PlusTimes(grid_start_longitude, 2, grid_width)
    /\ CellsOf(s)[9].latitude # grid_start_latitude

\* The level values of the cells the block's leading whole tokens stand for.
RawOf(s) == ExpandTokens(TokensOf(s))

\* C6: a cell whose token's level value is 0xFFFF carries no value, and any other level
\* value is carried as it is.
C6_Sentinel ==
  \A s \in SessionIds :
    Asked(s) =>
      \A k \in 1..Min(Len(CellsOf(s)), Len(RawOf(s))) :
        /\ RawOf(s)[k] = 65535 => CellsOf(s)[k].value = <<>>
        /\ RawOf(s)[k] # 65535 => CellsOf(s)[k].value = <<RawOf(s)[k]>>

\* A session has yielded a cell with no value for a 0xFFFF level and one with a value.
C6_Witness ==
  \E s \in SessionIds :
    /\ Asked(s)
    /\ \E k \in 1..Min(Len(CellsOf(s)), Len(RawOf(s))) :
         RawOf(s)[k] = 65535 /\ CellsOf(s)[k].value = <<>>
    /\ \E k \in 1..Min(Len(CellsOf(s)), Len(RawOf(s))) :
         RawOf(s)[k] = 15 /\ CellsOf(s)[k].value = <<15>>

\* C7: once a pull has returned an error, every later pull of the session returns
\* end-of-sequence.
C7_ErrorIsFatal ==
  \A s \in SessionIds :
    \A i, j \in 1..Len(out[s]) :
      (i < j /\ out[s][i].kind = "err") => out[s][j].kind = "none"

\* The first token of the block names a level or a level-repetition entry that is not
\* in its table.
FirstIndexOutOfBounds(B, levels, lrs) ==
  /\ Len(B) >= 1
  /\ \/ B[1] <= 127 /\ B[1] >= Len(lrs)
     \/ B[1] <= 127 /\ B[1] < Len(lrs) /\ lrs[B[1] + 1].level >= Len(levels)
     \/ B[1] \in 128..191 /\ B[1] - 128 >= Len(levels)
     \/ B[1] \in 192..223 /\ B[1] - 192 >= Len(levels)
     \/ B[1] = 254 /\ Len(B) >= 2 /\ B[2] >= Len(levels)

\* C8: a pull on a token whose index is outside its table returns an error: the call
\* does not unwind and yields no cell.
C8_IndexChecked ==
  \A s \in SessionIds :
    (/\ Asked(s)
     /\ Len(out[s]) >= 1
     /\ FirstIndexOutOfBounds(BlockBytes(s), value_by_levels, level_repetitions))
      => out[s][1].kind = "err"

\* The header fields as they lie in the file: the trailer at byte 77, the entry count at
\* 80, 20-byte index entries from 84, then the 40-byte grid block (map type at +2), the
\* compression method, the level count and levels, and the level-repetition count.
FileU16(o) == file[o + 1] + 256 * file[o + 2]
FileEntries == file[81]
FileGridAt == 84 + 20 * FileEntries
FileLevels == FileU16(FileGridAt + 42)
FileRepetitionsAt == FileGridAt + 44 + 2 * FileLevels
FileEntryTimeOk(i) ==
  /\ file[84 + 20 * (i - 1) + 3] \in 1..12
  /\ file[84 + 20 * (i - 1) + 4] \in
       1..DaysInMonth(FileU16(84 + 20 * (i - 1)), file[84 + 20 * (i - 1) + 3])
  /\ file[84 + 20 * (i - 1) + 5] <= 23
  /\ file[84 + 20 * (i - 1) + 6] <= 59

\* The place of the read of `width` bytes at `offset` among the header reads, 0 if none.
ReadNo(offset, width) ==
  IF \E k \in 1..Len(hdr.log) : hdr.log[k] = <<offset, width>>
    THEN CHOOSE k \in 1..Len(hdr.log) :
           /\ hdr.log[k] = <<offset, width>>
           /\ \A j \in 1..(k - 1) : hdr.log[j] # <<offset, width>>
    ELSE 0

\* C10: RapReader::new returns a Document only after it has read the five header blocks
\* in file order and found the trailer, the entry count, every entry's time, the map type
\* and the compression method valid, and the Document holds all five parts; when any
\* block fails it returns the error alone: no Document, no part kept, and no session
\* can be made.
C10_AllOrNothing ==
  /\ opened.st = "ok" =>
       /\ pc = "done"
       /\ SubSeq(file, 78, 80) = <<13, 10, 0>>
       /\ SubSeq(file, 81, 84) \in {<<24, 0, 0, 0>>, <<48, 0, 0, 0>>}
       /\ \A i \in 1..FileEntries : FileEntryTimeOk(i)
       /\ FileU16(FileGridAt + 2) = 1
       /\ FileU16(FileGridAt + 40) = 1
       /\ 0 < ReadNo(0, 6)
       /\ ReadNo(0, 6) < ReadNo(80, 4)
       /\ ReadNo(80, 4) < ReadNo(FileGridAt + 2, 2)
       /\ ReadNo(FileGridAt + 2, 2) < ReadNo(FileGridAt + 40, 2)
       /\ ReadNo(FileGridAt + 40, 2) < ReadNo(FileRepetitionsAt, 2)
       /\ DOMAIN opened.doc = {"comment_part", "data_index_part", "grid_definition_part",
                               "compression_part", "level_repetitions_part"}
       /\ Len(data_properties) = FileEntries
       /\ Len(value_by_levels) = FileLevels
       /\ Len(level_repetitions) = FileU16(FileRepetitionsAt)
  /\ opened.st # "ok" =>
       /\ opened.doc = NoDoc
       /\ \A s \in SessionIds : sess[s].st = "none" /\ out[s] = <<>>
  /\ opened.st = "err" => pc = "done" /\ parts = <<>>

\* The fourth block failed after three blocks were read: there is no Document.
C10_Witness ==
  /\ opened.st = "err"
  /\ opened.err.kind = "CompressionMethodUnsupported"
  /\ ReadNo(FileGridAt + 40, 2) > 0
  /\ opened.doc = NoDoc
  /\ parts = <<>>

\* The first pull of s yielded a cell of level value v, the first of n repeats.
FirstDecoded(s, v, n) ==
  /\ out[s][1].kind = "cell"
  /\ out[s][1].value = CellValue(v)
  /\ sess[s].current_value = CellValue(v)
  /\ sess[s].number_of_repetitions = n - 1

\* The session has made its first pull on a block of a leading byte and a next byte.
FirstPulled(s) == Asked(s) /\ Len(out[s]) = 1 /\ Len(BlockBytes(s)) = 2
LeadingByte(s) == BlockBytes(s)[1]
NextByte(s) == BlockBytes(s)[2]
LevelValue(level) == value_by_levels[level + 1]
TableEntry(b) == level_repetitions[b + 1]

\* C2: for every leading byte b and the tables at hand, the first token decodes as the
\* grammar table says wherever the indexes it names are in their tables: b in 0x00..0x7F
\* gives levelValues[table[b].level] repeated table[b].code + 2 times; b in 0xC0..0xDF
\* gives levelValues[b & 0x1F] repeated nextByte + 2 times; b in 0x80..0xBF gives
\* levelValues[b & 0x3F] once; b = 0xFE gives levelValues[nextByte] once.
C2_TokenGrammar ==
  \A s \in SessionIds :
    FirstPulled(s) =>
      /\ (/\ LeadingByte(s) \in 0..127
          /\ LeadingByte(s) < Len(level_repetitions)
          /\ TableEntry(LeadingByte(s)).level < Len(value_by_levels))
           => FirstDecoded(s, LevelValue(TableEntry(LeadingByte(s)).level),
                           TableEntry(LeadingByte(s)).repetition + 2)
      /\ (/\ LeadingByte(s) \in 192..223
          /\ BitAnd(LeadingByte(s), 31) < Len(value_by_levels))
           => FirstDecoded(s, LevelValue(BitAnd(LeadingByte(s), 31)), NextByte(s) + 2)
      /\ (/\ LeadingByte(s) \in 128..191
          /\ BitAnd(LeadingByte(s), 63) < Len(value_by_levels))
           => FirstDecoded(s, LevelValue(BitAnd(LeadingByte(s), 63)), 1)
      /\ (/\ LeadingByte(s) = 254
          /\ NextByte(s) < Len(value_by_levels))
           => FirstDecoded(s, LevelValue(NextByte(s)), 1)

\* The token DF FF under the 64-level table: level 31, 257 repeats, 256 of them buffered.
C2_Witness ==
  \E s \in SessionIds :
    /\ FirstPulled(s)
    /\ BlockBytes(s) = <<223, 255>>
    /\ value_by_levels = WideLevels
    /\ out[s][1].value = <<WideLevels[32]>>
    /\ sess[s].number_of_repetitions = 256

\* C9: of the four token tests at most one holds of a leading byte, and they hold of
\* 0x00..0x7F, 0xC0..0xDF, 0x80..0xBF and 0xFE; the first pull returns an error exactly
\* for the other bytes (0xE0..0xFD, 0xFF); a pull that yields a cell has consumed 1 byte
\* of an indexed repeat or single common value and 2 bytes of an explicit repeat or
\* single rare value, and one that returns the error has consumed 1 byte.
C9_Partition ==
  \A s \in SessionIds :
    (Asked(s) /\ Len(BlockBytes(s)) = 2) =>
      /\ Cardinality({t \in {"table", "explicit", "frequent", "rare"} :
                        \/ t = "table" /\ IsTableRun(LeadingByte(s))
                        \/ t = "explicit" /\ IsExplicitRun(LeadingByte(s))
                        \/ t = "frequent" /\ IsFrequentSingle(LeadingByte(s))
                        \/ t = "rare" /\ IsRareSingle(LeadingByte(s))}) <= 1
      /\ IsTableRun(LeadingByte(s)) <=> LeadingByte(s) \in 0..127
      /\ IsExplicitRun(LeadingByte(s)) <=> LeadingByte(s) \in 192..223
      /\ IsFrequentSingle(LeadingByte(s)) <=> LeadingByte(s) \in 128..191
      /\ IsRareSingle(LeadingByte(s)) <=> LeadingByte(s) = 254
      /\ Len(out[s]) >= 1 =>
           (out[s][1].kind = "err" <=> LeadingByte(s) \in (224..253) \cup {255})
      /\ (Len(out[s]) = 1 /\ out[s][1].kind = "cell") =>
           sess[s].read_bytes = IF LeadingByte(s) \in (0..127) \cup (128..191) THEN 1 ELSE 2
      /\ (Len(out[s]) = 1 /\ out[s][1].kind = "err") => sess[s].read_bytes = 1

\* The first pull on a block that starts with 0xE0 returned the error after one byte.
C9_Witness ==
  \E s \in SessionIds :
    /\ FirstPulled(s)
    /\ LeadingByte(s) = 224
    /\ out[s][1].kind = "err"
    /\ sess[s].read_bytes = 1

\* A header read past byte n of the file is in the read log.
ReadPast(n) == \E k \in 1..Len(hdr.log) : hdr.log[k][1] + hdr.log[k][2] > n
FileTrailerBad == Len(file) >= 80 /\ SubSeq(file, 78, 80) # <<13, 10, 0>>

\* C11: when the 3 bytes after the 77 bytes of comment fields are not 0D 0A 00, no byte
\* after them is ever read (not the entry count, no index entry), no Document is built,
\* and once the trailer has been read RapReader::new has returned the trailer error.
C11_TrailerFirst ==
  FileTrailerBad =>
    /\ ~ReadPast(80)
    /\ opened.st # "ok"
    /\ pc \in {"open", "comment", "done"}
    /\ ReadNo(77, 3) > 0 => (pc = "done" /\ opened.st = "err" /\ opened.err = TrailerError)
    /\ (pc = "done" /\ exists) => opened.st = "err" /\ opened.err.kind = "Unexpected"

\* The trailer and the entry count are both wrong: the trailer error came, with the
\* cursor at byte 80.
C11_Witness ==
  /\ FileTrailerBad
  /\ Len(file) >= 84
  /\ file[81] = 25
  /\ opened.st = "err"
  /\ opened.err = TrailerError
  /\ hdr.pos = 80
  /\ ReadNo(77, 3) > 0

FileCount == u32_from_le_bytes(SubSeq(file, 81, 84))
FileCountBad == Len(file) >= 84 /\ FileCount \notin {U32(0, 24), U32(0, 48)}

\* C12: when the 32-bit entry count is neither 24 nor 48, nothing after the count is read
\* (no index entry, no grid block, no compression block), no Document is built, and once
\* the count has been read RapReader::new has returned ObservationIntervalUnsupported with
\* the count; a Document that was built holds exactly 24 or 48 entries, as many as the
\* count field says.
C12_IntervalChecked ==
  /\ FileCountBad =>
       /\ ~ReadPast(84)
       /\ opened.st # "ok"
       /\ pc \in {"open", "comment", "data_index", "done"}
       /\ ReadNo(80, 4) > 0 =>
            (pc = "done" /\ opened.st = "err"
               /\ opened.err = ObservationIntervalUnsupported(FileCount))
  /\ opened.st = "ok" =>
       /\ Len(data_properties) \in {24, 48}
       /\ U32(0, Len(data_properties)) = FileCount
       /\ opened.doc.data_index_part.number_of_data = Len(data_properties)

\* A count of 25 in a file whose map type is wrong as well: the count's error came, with
\* the cursor at byte 84.
C12_Witness ==
  /\ FileCountBad
  /\ FileCount = U32(0, 25)
  /\ Len(file) > 84 + 20 * 24 + 4
  /\ FileU16(84 + 20 * 24 + 2) = 2
  /\ opened.st = "err"
  /\ opened.err.kind = "ObservationIntervalUnsupported"
  /\ hdr.pos = 84

\* A header read that starts at a byte of a..(b - 1) is in the read log.
ReadWithin(a, b) == \E k \in 1..Len(hdr.log) : hdr.log[k][1] >= a /\ hdr.log[k][1] < b
FileCountGood == Len(file) >= 84 /\ FileCount \in {U32(0, 24), U32(0, 48)}
FileMapTypeBad ==
  /\ FileCountGood
  /\ Len(file) >= FileGridAt + 4
  /\ FileU16(FileGridAt + 2) # 1
FileMethodBad ==
  /\ FileCountGood
  /\ Len(file) >= FileGridAt + 42
  /\ FileU16(FileGridAt + 40) # 1

\* C13: when the map type is not 1, the read of the map type is the last read of the
\* header: the grid's coordinates, spacings and counts and the later blocks are never
\* read, and RapReader::new has returned MapTypeUnsupported with the value. When the
\* compression method is not 1, the read of the method is the last read: the level
\* count, the level values and the level-repetition table are never read, and
\* RapReader::new has returned CompressionMethodUnsupported with the value.
C13_TypeAndMethodFirst ==
  /\ FileMapTypeBad =>
       /\ ~ReadWithin(FileGridAt + 4, FileGridAt + 44)
       /\ opened.st # "ok"
       /\ pc \notin {"compression", "level_repetitions"}
       /\ ReadNo(FileGridAt + 2, 2) > 0 =>
            /\ ReadNo(FileGridAt + 2, 2) = Len(hdr.log)
            /\ hdr.pos = FileGridAt + 4
            /\ pc = "done"
            /\ opened.st = "err"
            /\ opened.err = MapTypeUnsupported(FileU16(FileGridAt + 2))
  /\ FileMethodBad =>
       /\ ~ReadWithin(FileGridAt + 42, FileGridAt + 44)
       /\ opened.st # "ok"
       /\ pc # "level_repetitions"
       /\ ReadNo(FileGridAt + 40, 2) > 0 =>
            /\ ReadNo(FileGridAt + 40, 2) = Len(hdr.log)
            /\ hdr.pos = FileGridAt + 42
            /\ pc = "done"
            /\ opened.st = "err"
            /\ opened.err = CompressionMethodUnsupported(FileU16(FileGridAt + 40))

\* The map type and the compression method are both wrong: the map type's error came.
C13_Witness ==
  /\ FileMapTypeBad
  /\ FileMethodBad
  /\ opened.st = "err"
  /\ opened.err = MapTypeUnsupported(0)
  /\ hdr.pos = FileGridAt + 4

\* What the last successful header read found: one of the four format violations.
TrailerViolated == FileTrailerBad /\ ReadNo(77, 3) > 0
CountViolated == FileCountBad /\ ReadNo(80, 4) > 0
MapTypeViolated == FileMapTypeBad /\ ReadNo(FileGridAt + 2, 2) > 0
MethodViolated == FileMethodBad /\ ReadNo(FileGridAt + 40, 2) > 0
\* The header reader failed at a read: the read that the injected I/O failure hits, or a
\* read at the end of the file, with no violation found by the read before it.
LastContext(e) == IF e.ctx = <<>> THEN "" ELSE e.ctx[Len(e.ctx)]
ReadFailed ==
  /\ opened.st = "err"
  /\ exists
  /\ \/ ioFailAt # 0 /\ Len(hdr.log) + 1 = ioFailAt
     \/ ioFailAt = 0 /\ hdr.pos >= Len(file)
  /\ ~(TrailerViolated \/ CountViolated \/ MapTypeViolated \/ MethodViolated)
  /\ LastContext(opened.err) \notin {"read_str: from_utf8", "month_enum", "date", "time"}

\* The five outcomes, as predicates of the error value returned.
ErrorOutcomes(e) ==
  <<e.kind = "Unexpected" /\ e.ctx = <<"trailer is not 0x0d 0x0a 0x00">>,
    e.kind = "ObservationIntervalUnsupported",
    e.kind = "MapTypeUnsupported",
    e.kind = "CompressionMethodUnsupported",
    e.kind = "Unexpected" /\ LastContext(e) \in {"failed to fill whole buffer", "io error"}>>
OnlyOutcome(i) ==
  \A j \in 1..5 : ErrorOutcomes(opened.err)[j] <=> (j = i)

FileEntryTime(i) ==
  <<FileU16(84 + 20 * (i - 1)), file[84 + 20 * (i - 1) + 3], file[84 + 20 * (i - 1) + 4],
    file[84 + 20 * (i - 1) + 5], file[84 + 20 * (i - 1) + 6]>>
FileEntryOffset(i) ==
  AsPos(u32_from_le_bytes(SubSeq(file, 84 + 20 * (i - 1) + 17, 84 + 20 * (i - 1) + 20)))
FileHits(dt) == {i \in 1..FileEntries : FileEntryTime(i) = dt}
FirstHit(dt) == CHOOSE i \in FileHits(dt) : \A j \in FileHits(dt) : i <= j

\* C15: value_iterator(dt) serves the first index entry, in file order, whose time is
\* exactly dt: the session's cursor started 4 bytes behind that entry's start offset.
\* When no entry has the time dt the call returns DataDoesNotRecorded(dt) and nothing
\* else happens: no cursor, no other entry served, and the error is the same whether or
\* not the file can still be opened.
C15_ExactMatch ==
  \A s \in SessionIds :
    asked[s] # <<>> =>
      IF FileHits(asked[s]) = {}
        THEN sess[s] = [NoSession EXCEPT !.st = "err", !.err = DataDoesNotRecorded(asked[s])]
        ELSE /\ sess[s].st = "err" => sess[s].err = OpenError /\ ~exists
             /\ sess[s].st # "err" =>
                  /\ sess[s].st \in {"iter", "panic"}
                  /\ sess[s].pos - sess[s].read_bytes = FileEntryOffset(FirstHit(asked[s])) + 4

\* Two entries carry the time asked for, the session reads the block of the first.
C15_Witness ==
  \E s \in SessionIds :
    /\ asked[s] # <<>>
    /\ FileHits(asked[s]) = {1, 2}
    /\ FileEntryOffset(1) # FileEntryOffset(2)
    /\ sess[s].st = "iter"
    /\ sess[s].read_bytes > 0
    /\ sess[s].pos - sess[s].read_bytes = FileEntryOffset(1) + 4

\* The runs of n pulls on sessions that are pulled alone: S holds the runs so far, each
\* the session's state and the items it returned.
RECURSIVE AloneRuns(_, _)
AloneRuns(S, n) ==
  IF n = 0 THEN S
  ELSE AloneRuns(UNION {IF r.it.st = "iter"
                          THEN {[it |-> x.it, out |-> Append(r.out, x.ret)] : x \in next(r.it)}
                          ELSE {} : r \in S},
                 n - 1)
\* Every session is where a session of its own, pulled alone as often, would be.
AsAlone ==
  \A s \in SessionIds :
    asked[s] # <<>> =>
      [it |-> sess[s], out |-> out[s]]
        \in AloneRuns({[it |-> value_iterator(asked[s]), out |-> <<>>]}, Len(out[s]))
\* Sessions for the same time agree on every item both have returned, and are in the
\* same state after the same number of pulls.
SameAgain ==
  \A s, t \in SessionIds :
    (asked[s] # <<>> /\ asked[s] = asked[t] /\ Len(out[s]) <= Len(out[t])) =>
      /\ IsPrefix(out[s], out[t])
      /\ Len(out[s]) = Len(out[t]) => sess[s] = sess[t]

\* C16: with two sessions of one Document, started and pulled in any order, a step of
\* one session (its creation or a pull) leaves every field of the other session and the
\* items the other has returned unchanged; each session is in the state and has returned
\* the items of a session pulled alone; two sessions for the same time return the same
\* items.
C16_Isolation ==
  /\ [][\A s, t \in SessionIds :
         (s # t /\ (sess'[s] # sess[s] \/ out'[s] # out[s] \/ asked'[s] # asked[s])) =>
           (sess'[t] = sess[t] /\ out'[t] = out[t] /\ asked'[t] = asked[t])]_vars
  /\ [](AsAlone /\ SameAgain)

\* Both sessions read the same entry, one is three pulls in and the other five.
C16_Witness ==
  /\ asked[1] # <<>>
  /\ asked[1] = asked[2]
  /\ sess[1].st = "iter"
  /\ sess[2].st = "iter"
  /\ Len(out[1]) = 3
  /\ Len(out[2]) = 5
  /\ out[1][3].kind = "cell"
  /\ sess[1].pos # sess[2].pos

\* The Document's header content, through its accessors.
Header ==
  <<opened.doc.comment_part, data_properties,
    <<grid_start_latitude, grid_start_longitude, grid_width, grid_height,
      number_of_h_grids, number_of_v_grids>>,
    value_by_levels, level_repetitions>>

\* C17: once the Document is built, no step changes it: a value_iterator call, whether it
\* returns a session or an error, and every pull on every session leave the comment
\* header, every index entry, the grid definition, the level values and the
\* level-repetition table as they were, and the header reader is not used again.
C17_ReadOnly ==
  [][opened.st = "ok" =>
       /\ opened' = opened
       /\ Header' = Header
       /\ hdr' = hdr /\ parts' = parts]_vars

\* One call failed, the other session was pulled to the end of its block, and the
\* Document still holds the 24 entries and the tables of the file.
C17_Witness ==
  /\ opened.st = "ok"
  /\ sess[1].st = "err"
  /\ sess[1].err.kind = "DataDoesNotRecorded"
  /\ sess[2].st = "iter"
  /\ Ended(2)
  /\ Len(data_properties) = 24
  /\ value_by_levels = Levels
  /\ Len(level_repetitions) = Len(LevelReps)

\* Pair i (from 1) of the level-repetition table, from the bytes of the file.
FileRepetition(i) ==
  [level |-> file[FileRepetitionsAt + 2 * i + 1],
   repetition |-> file[FileRepetitionsAt + 2 * i + 2]]

\* C18: the level-repetition table of a Document has at most 128 entries, each a pair of
\* a level in 0..255 and a repeat code in 0..255, in the order of the file.
C18_TableBound ==
  opened.st = "ok" =>
    /\ Len(level_repetitions) <= 128
    /\ \A i \in 1..Len(level_repetitions) :
         /\ level_repetitions[i].level \in 0..255
         /\ level_repetitions[i].repetition \in 0..255
         /\ level_repetitions[i] = FileRepetition(i)

\* What holds instead: the table has as many entries as the 16-bit count of the file
\* says, each a pair of bytes in the order of the file.
TableAsCounted ==
  opened.st = "ok" =>
    /\ Len(level_repetitions) = FileU16(FileRepetitionsAt)
    /\ opened.doc.level_repetitions_part.number_of_level_repetitions = Len(level_repetitions)
    /\ \A i \in 1..Len(level_repetitions) :
         /\ level_repetitions[i].level \in 0..255
         /\ level_repetitions[i].repetition \in 0..255
         /\ level_repetitions[i] = FileRepetition(i)

\* Digit i (from 0) in base 256 of a number given by its 16-bit limbs, low limb first.
Digit(limbs, i) ==
  IF i % 2 = 0 THEN limbs[(i \div 2) + 1] % 256 ELSE limbs[(i \div 2) + 1] \div 256

\* C19: a call of read_u8, read_u16, read_u32 or read_u64 that finds 1, 2, 4 or 8 bytes
\* left returns the number whose base-256 digits, lowest first, are these bytes, and has
\* moved the reader by exactly that many bytes; a call that finds fewer bytes left (or
\* whose read fails) returns an error and no value.
C19_LittleEndian ==
  \A k \in 1..Len(parts) :
    LET c == parts[k]
        n == IF k < Len(parts) THEN parts[k + 1].at ELSE hdr.pos
    IN /\ c.ok <=> (c.at + c.width <= Len(file) /\ ~(ioFailAt # 0 /\ k >= ioFailAt))
       /\ c.ok =>
            /\ n = c.at + c.width
            /\ Len(c.v) = (c.width + 1) \div 2
            /\ \A j \in 1..Len(c.v) : c.v[j] \in 0..(IF c.width = 1 THEN 255 ELSE 65535)
            /\ \A i \in 0..(c.width - 1) : Digit(c.v, i) = file[c.at + i + 1]
       /\ ~c.ok =>
            /\ c.v = <<>>
            /\ c.err.kind = "Unexpected"
            /\ k = Len(parts)
            /\ pc = "done"

\* read_u32 returned 0xFF800001 for the bytes 01 00 80 FF, and read_u16 then failed on
\* the one byte left.
C19_Witness ==
  /\ file = <<1, 0, 128, 255, 7>>
  /\ Len(parts) = 2
  /\ parts[1].width = 4 /\ parts[1].ok /\ parts[1].v = <<1, 65408>>
  /\ parts[2].width = 2 /\ ~parts[2].ok
  /\ hdr.pos = 4

\* The header reads of index entry i, by their place in the read log: 4 reads of the
\* comment part and the read of the count come first, and every entry takes 10 reads
\* (year, month, day, hour, minute, element, start offset, and size, radar statuses and
\* station count of the data record the offset names).
EntryReadNo(i, k) == 5 + 10 * (i - 1) + k
EntryRead(i, k) == hdr.log[EntryReadNo(i, k)]
\* After the look into the data record of entry i the reader is back behind the entry's
\* start-offset field: the next read of the header (the year of entry i + 1, or the map
\* type, which lies 2 bytes into the grid block) starts there.
Restored(i) ==
  /\ EntryReadNo(i, 8) <= Len(hdr.log) =>
       EntryRead(i, 8)[1] = AsPos(u32_from_le_bytes(
                              SubSeq(file, EntryRead(i, 7)[1] + 1, EntryRead(i, 7)[1] + 4)))
  /\ EntryReadNo(i + 1, 1) <= Len(hdr.log) =>
       EntryRead(i + 1, 1)[1] = EntryRead(i, 7)[1] + 4 + (IF i = FileEntries THEN 2 ELSE 0)
\* The entries lie d bytes apart from byte 84 on, the start offset in the last 4 bytes
\* of each, and the grid block behind the last entry.
EntriesAtStride(d) ==
  Len(hdr.log) >= 5 =>
    /\ \A i \in 1..FileEntries :
         /\ EntryReadNo(i, 1) <= Len(hdr.log) => EntryRead(i, 1) = <<84 + d * (i - 1), 2>>
         /\ EntryReadNo(i, 7) <= Len(hdr.log) =>
              EntryRead(i, 7) = <<84 + d * (i - 1) + d - 4, 4>>
         /\ Restored(i)
    /\ EntryReadNo(FileEntries + 1, 1) <= Len(hdr.log) =>
         EntryRead(FileEntries + 1, 1) = <<84 + d * FileEntries + 2, 2>>
    /\ pc = "grid_definition" => hdr.pos = 84 + d * FileEntries

\* C20 (as stated): after the look into each entry's data record the reader is back at
\* the byte behind the entry's start-offset field, so that the entries are read 21 bytes
\* apart and the grid block from the byte behind the last entry.
C20_Stride21 == EntriesAtStride(21)

\* C20 (amended): the same with entries of 20 bytes: 6 bytes of time (16-bit year, month,
\* day, hour, minute), 2 of element code, 8 reserved, 4 of start offset.
C20_EntryStride == EntriesAtStride(20)

\* All 24 entries were read, their data records lying at different offsets, and the
\* reader stands at byte 84 + 20 * 24 = 564, where the grid block begins.
C20_Witness ==
  /\ pc = "grid_definition"
  /\ FileEntries = 24
  /\ hdr.pos = 564
  /\ EntryRead(24, 1) = <<544, 2>>
  /\ EntryRead(1, 8)[1] # EntryRead(2, 8)[1]
  /\ EntryRead(2, 8)[1] > 564

\* The little-endian u32 and u64 at byte o of the file, as 16-bit limbs.
FileU32At(o) == U32(FileU16(o + 2), FileU16(o))
FileU64At(o) == <<FileU16(o), FileU16(o + 2), FileU16(o + 4), FileU16(o + 6)>>
\* Entry i of the Document holds what the file has at the entry's place in the index and
\* in the data record at the entry's start offset o: the length at o, the radar statuses
\* behind the block, the station count behind them.
EntryAsInFile(i) ==
  LET dp == data_properties[i]
      o == FileEntryOffset(i)
      n == AsPos(dp.compressed_data_size)
  IN /\ dp.observation_date_time = FileEntryTime(i)
     /\ dp.observation_element = FileU16(84 + 20 * (i - 1) + 6)
     /\ dp.data_start_position = FileU32At(84 + 20 * (i - 1) + 16)
     /\ o + 4 <= Len(file) => dp.compressed_data_size = FileU32At(o)
     /\ o + 16 + n <= Len(file) =>
          /\ dp.radar_operation_statuses = FileU64At(o + 4 + n)
          /\ dp.number_of_amedas = FileU32At(o + 12 + n)

\* C21: every entry of a Document, in the order of the file's index, holds the
\* compressed size read at its start offset o, the radar statuses read at
\* o + 4 + compressedSize and the station count read at o + 12 + compressedSize (as far
\* as the file, which may have been cut after the Document was built, still has these
\* bytes).
C21_Lookahead ==
  opened.st = "ok" =>
    /\ Len(data_properties) = FileEntries
    /\ \A i \in 1..Len(data_properties) : EntryAsInFile(i)
    /\ pc = "done"

\* The first record declares 2 bytes for a block of 4: its radar statuses were taken
\* from 2 bytes into the block, and the second entry's from its own record.
C21_Witness ==
  /\ opened.st = "ok"
  /\ data_properties[1].compressed_data_size = U32(0, 2)
  /\ FileEntryOffset(1) + 16 + 4 < Len(file)
  /\ data_properties[1].radar_operation_statuses
       = FileU64At(FileEntryOffset(1) + 6)
  /\ data_properties[1].radar_operation_statuses # data_properties[2].radar_operation_statuses
  /\ data_properties[2].number_of_amedas = U32(0, 1302)
  /\ FileEntryOffset(2) > FileEntryOffset(1)

\* C22: a session that value_iterator(dt) has returned and that was not pulled yet has
\* its cursor at the entry's start offset + 4, the entry's compressed size as its byte
\* budget, no byte consumed, no repeat pending, no current value, row counter 0, and
\* stands on the grid's start latitude and start longitude.
C22_FreshSession ==
  \A s \in SessionIds :
    (sess[s].st = "iter" /\ out[s] = <<>>) =>
      /\ FileHits(asked[s]) # {}
      /\ sess[s].pos = FileEntryOffset(FirstHit(asked[s])) + 4
      /\ sess[s].compressed_data_bytes
           = AsPos(data_properties[FirstHit(asked[s])].compressed_data_size)
      /\ sess[s].read_bytes = 0
      /\ sess[s].number_of_repetitions = 0
      /\ sess[s].h_moved_times = 0
      /\ sess[s].current_value = <<>>
      /\ sess[s].current_latitude = FileU32At(FileGridAt + 4)
      /\ sess[s].current_longitude = FileU32At(FileGridAt + 8)
      /\ sess[s].min_longitude = FileU32At(FileGridAt + 8)
      /\ sess[s].grid_width = FileU32At(FileGridAt + 12)
      /\ sess[s].grid_height = FileU32At(FileGridAt + 16)
      /\ sess[s].number_of_h_grids = FileU16(FileGridAt + 20)

\* A session for the second entry, whose record holds one byte, before its first pull.
C22_Witness ==
  \E s \in SessionIds :
    /\ sess[s].st = "iter"
    /\ out[s] = <<>>
    /\ FirstHit(asked[s]) = 2
    /\ sess[s].pos = FileEntryOffset(2) + 4
    /\ file[sess[s].pos + 1] = 129
    /\ sess[s].compressed_data_bytes = 1

\* The civil calendar, for years 1..9999: t = <<year, month, day, hour, minute>> is a
\* date and a time of day.
MonthLengths == <<31, 28, 31, 30, 31, 30, 31, 31, 30, 31, 30, 31>>
CivilOk(t) ==
  /\ t[2] \in 1..12
  /\ t[3] >= 1
  /\ t[3] <= MonthLengths[t[2]]
            + (IF t[2] = 2 /\ t[1] % 4 = 0 /\ (t[1] % 100 # 0 \/ t[1] % 400 = 0) THEN 1 ELSE 0)
  /\ t[4] \in 0..23
  /\ t[5] \in 0..59
BadEntries == {i \in 1..FileEntries : ~CivilOk(FileEntryTime(i))}
FirstBadEntry == CHOOSE i \in BadEntries : \A j \in BadEntries : i <= j

\* C23: when an entry of the index carries a month outside 1..12, or a year, month and
\* day or an hour and minute that are no civil date and time, RapReader::new builds no
\* Document; of the first such entry at most the 5 time fields are read (only year and
\* month when the month is outside 1..12), and nothing behind them: not its element
\* code, start offset or data record, and no later entry or block; once the time fields
\* have been read RapReader::new has returned an error.
C23_BadDate ==
  (FileCountGood /\ Len(file) >= FileGridAt /\ BadEntries # {}) =>
    LET b == FirstBadEntry
        end == IF FileEntryTime(b)[2] \in 1..12 THEN EntryReadNo(b, 5) ELSE EntryReadNo(b, 2)
    IN /\ opened.st # "ok"
       /\ pc \in {"open", "comment", "data_index", "done"}
       /\ Len(hdr.log) <= end
       /\ \A k \in EntryReadNo(b, 1)..Len(hdr.log) :
            hdr.log[k][1] + hdr.log[k][2] <= 84 + 20 * (b - 1) + 6
       /\ Len(hdr.log) = end =>
            /\ pc = "done"
            /\ opened.st = "err"
            /\ opened.err.kind = "Unexpected"
            /\ LastContext(opened.err) \in {"month_enum", "date", "time"}
            /\ hdr.pos <= 84 + 20 * (b - 1) + 6

\* April 31 in the second entry: the first entry and its data record were read, the
\* five time fields of the second, and RapReader::new returned the date's error.
C23_Witness ==
  /\ FileCountGood /\ Len(file) >= FileGridAt
  /\ BadEntries = {2}
  /\ FileEntryTime(2) = <<2001, 4, 31, 2, 0>>
  /\ Len(hdr.log) = EntryReadNo(2, 5)
  /\ EntryRead(1, 10)[1] > FileGridAt
  /\ opened.st = "err"
  /\ LastContext(opened.err) = "date"
  /\ hdr.pos = 84 + 20 + 6

\* C24: a session never consumes more bytes than the compressed size it was given, and
\* its cursor never passes the declared end of the block (start offset + 4 + size).
C24_WithinBudget ==
  \A s \in SessionIds :
    sess[s].st \in {"iter", "panic"} =>
      /\ sess[s].read_bytes <= sess[s].compressed_data_bytes
      /\ sess[s].pos <= FileEntryOffset(FirstHit(asked[s])) + 4 + sess[s].compressed_data_bytes

\* What holds instead: the session passes the declared end by at most one byte, the
\* second byte of a two-byte token whose leading byte is the last byte of the budget.
WithinBudgetButOne ==
  \A s \in SessionIds :
    sess[s].st \in {"iter", "panic"} =>
      /\ sess[s].read_bytes <= sess[s].compressed_data_bytes + 1
      /\ sess[s].pos = FileEntryOffset(FirstHit(asked[s])) + 4 + sess[s].read_bytes
      /\ sess[s].read_bytes > sess[s].compressed_data_bytes =>
           \/ file[sess[s].pos - 1] \in 192..223
           \/ file[sess[s].pos - 1] = 254

\* The loop over session s is over: next() returned None, or a pull unwound.
LoopOver(s) == (out[s] # <<>> /\ out[s][1].kind = "none") \/ sess[s].st = "panic"

\* C25: the loop that pulls a session and skips the errors comes to its end: every
\* session reaches end-of-sequence after finitely many pulls.
C25_Terminates ==
  \A s \in SessionIds : (sess[s].st = "iter") ~> LoopOver(s)

\* What holds instead: the loop comes to its end when the file has every byte up to the
\* declared end of the block and the one behind it.
TerminatesOnWholeBlock ==
  \A s \in SessionIds :
    (sess[s].st = "iter"
       /\ FileEntryOffset(FirstHit(asked[s])) + 4 + sess[s].compressed_data_bytes < Len(file))
      ~> LoopOver(s)

\* Every cell of the grid has coordinates in 0..2^32-1: the south-east cell has.
GridFits == IsU32(SouthEastLatitude) /\ IsU32(SouthEastLongitude)

\* C26: on a grid all of whose cells have u32 coordinates, the coordinate update of a
\* pull that yields a cell of the grid (the session holds a repeat to emit, and fewer
\* cells than the grid has were yielded) does not leave the u32 range.
C26_NoOverflow ==
  \A s \in SessionIds :
    (sess[s].st = "iter" /\ sess[s].number_of_repetitions > 0
       /\ GridFits /\ Len(CellsOf(s)) < LastOfGrid) =>
      ~Overflows(sess[s])

\* What holds instead: the update stays in range on a grid that has room for one more
\* column to the east and one more row to the south.
NoOverflowWithMargin ==
  \A s \in SessionIds :
    (sess[s].st = "iter" /\ sess[s].number_of_repetitions > 0
       /\ IsU32(MinusTimes(grid_start_latitude, number_of_v_grids, grid_height))
       /\ IsU32(PlusTimes(grid_start_longitude, number_of_h_grids, grid_width))
       /\ Len(CellsOf(s)) < LastOfGrid) =>
      ~Overflows(sess[s])


\* The fields of a session that place the next cell and say what it holds.
Placement(it) ==
  <<it.current_latitude, it.current_longitude, it.h_moved_times,
    it.current_value, it.number_of_repetitions>>

\* The bytes a pull took: the consumed-byte counter and the cursor advance together.
Taken(s) == sess'[s].read_bytes - sess[s].read_bytes

\* C27: a pull that returns an error emits no cell and moves nothing: latitude,
\* longitude, row counter, current value and repeat count are what they were before
\* the pull; only the consumed-byte counter and the cursor advance, together, by at
\* most 2 bytes.
C27_ErrorMovesNothing ==
  [][\A s \in SessionIds :
       (PullStep(s) /\ Returned(s).kind = "err") =>
         /\ Placement(sess'[s]) = Placement(sess[s])
         /\ Taken(s) \in 0..2
         /\ sess'[s].pos = sess[s].pos + Taken(s)
         /\ CellsOf(s)' = CellsOf(s)]_vars

\* A session that emitted cells, then returned an error from a pull that had consumed
\* one byte before failing.
C27_Witness ==
  \E s \in SessionIds :
    /\ sess[s].st = "iter"
    /\ Len(out[s]) >= 2
    /\ out[s][Len(out[s])].kind = "err"
    /\ out[s][Len(out[s]) - 1].kind = "cell"
    /\ sess[s].h_moved_times > 0
    /\ sess[s].read_bytes >= 2


\* C28: end-of-sequence is absorbing: the pull that returns it reads no byte and
\* changes no session state, and once a session has returned it every later pull
\* returns it again and no step changes the session, so the session never restarts.
C28_EndAbsorbing ==
  [][\A s \in SessionIds :
       /\ (PullStep(s) /\ Returned(s).kind = "none") => sess'[s] = sess[s]
       /\ Ended(s) =>
            /\ sess'[s] = sess[s]
            /\ PullStep(s) => Returned(s).kind = "none"]_vars

\* A session that emitted cells from a non-empty block and then returned
\* end-of-sequence on three pulls in a row.
C28_Witness ==
  \E s \in SessionIds :
    /\ sess[s].st = "iter"
    /\ sess[s].compressed_data_bytes > 0
    /\ Len(CellsOf(s)) > 0
    /\ Len(out[s]) >= 4
    /\ \A k \in (Len(out[s]) - 2)..Len(out[s]) : out[s][k].kind = "none"


\* C29: a session for an entry whose declared compressed size is 0 returns
\* end-of-sequence on its first pull and on every pull after it, reads no byte (the
\* cursor stays at the entry's offset + 4) and emits no cell, whatever bytes follow
\* the length field in the file.
C29_EmptyRecord ==
  \A s \in SessionIds :
    (sess[s].st \in {"iter", "panic"} /\ sess[s].compressed_data_bytes = 0) =>
      /\ sess[s].st = "iter"
      /\ \A k \in 1..Len(out[s]) : out[s][k].kind = "none"
      /\ sess[s].read_bytes = 0
      /\ \E i \in 1..Len(data_properties) :
           /\ data_properties[i].observation_date_time = asked[s]
           /\ data_properties[i].compressed_data_size = U32(0, 0)
           /\ sess[s].pos = AsPos(data_properties[i].data_start_position) + 4
      /\ sess[s].number_of_repetitions = 0
      /\ sess[s].current_value = <<>>
      /\ sess[s].h_moved_times = 0

\* A pulled session for an entry that declares 0 bytes and is followed in the file by
\* a byte that would decode to a cell.
C29_Witness ==
  \E s \in SessionIds :
    /\ sess[s].st = "iter"
    /\ sess[s].compressed_data_bytes = 0
    /\ Len(out[s]) >= 1
    /\ out[s][1].kind = "none"
    /\ Len(file) > sess[s].pos
    /\ file[sess[s].pos + 1] \in 128..190


(***************************************************************************)
(* The two compression-part readers, applied to a reader that stands at    *)
(* the compression table of a whole file                                   *)
(***************************************************************************)
MaxLevels == 3
LevelValues == {0, 7, 258}
LevelTables == UNION {[1..n -> LevelValues] : n \in 0..MaxLevels}
RepetitionTables == {<<>>, <<<<1, 0>>>>, <<<<0, 3>>, <<2, 1>>>>}
LevelInputs ==
  {Input([BaseFile EXCEPT !.levels = l, !.lrs = t]) : l \in LevelTables, t \in RepetitionTables}

InitLevels ==
  /\ \E i \in LevelInputs :
       /\ file = BuildFile(i.file)
       /\ exists = i.exists
       /\ ioFailAt = i.ioFailAt
  /\ pc = "compression"
  /\ hdr = [pos |-> FileGridAt + 40, log |-> <<>>]
  /\ parts = <<>>
  /\ opened = Pending
  /\ plan = {}
  /\ asked = [s \in SessionIds |-> <<>>]
  /\ sess = [s \in SessionIds |-> NoSession]
  /\ out = [s \in SessionIds |-> <<>>]

\* `let level_repetitions_part = read_level_repetitions_part(&mut reader)?;`
ReadLevelRepetitionsTable ==
  pc = "level_repetitions" /\ PartStep(read_level_repetitions_part(hdr), "tables")

\* readers.rs: `let compression_part = read_compression_part(&mut reader)?;`
DraftReadCompressionPart ==
  pc = "compression" /\ PartStep(draft_read_compression_part(hdr), "draft_level_repetitions")

\* readers.rs: `let level_repetitions_part = read_level_repetitions_part(&mut reader)?;`
DraftReadLevelRepetitionsPart ==
  /\ pc = "draft_level_repetitions"
  /\ PartStep(draft_read_level_repetitions_part(hdr), "draft_tables")

NextLevels ==
  \/ ReadCompressionPart
  \/ ReadLevelRepetitionsTable
  \/ DraftReadCompressionPart
  \/ DraftReadLevelRepetitionsPart

SpecLevels == InitLevels /\ [][NextLevels]_vars

\* The level values of the file are what the compression part holds, and the reader
\* stands on the byte after the last of them.
LevelsAsDeclared(part) ==
  /\ part.number_of_levels = FileLevels
  /\ Len(part.value_by_levels) = FileLevels
  /\ \A i \in 1..Len(part.value_by_levels) :
       part.value_by_levels[i] = FileU16(FileGridAt + 44 + 2 * (i - 1))

\* The level-repetition table was read from the byte after the last level value.
RepetitionsAfterLevels(part) ==
  /\ part.number_of_level_repetitions = FileU16(FileRepetitionsAt)
  /\ Len(part.level_repetitions) = FileU16(FileRepetitionsAt)
  /\ \A i \in 1..Len(part.level_repetitions) :
       part.level_repetitions[i] = FileRepetition(i)
  /\ hdr.pos = FileRepetitionsAt + 2 + 2 * FileU16(FileRepetitionsAt)

\* What a reader in state p did with the tables of a whole file.
TablesAsInFile(after, done) ==
  /\ pc = after => LevelsAsDeclared(parts[1]) /\ hdr.pos = FileRepetitionsAt
  /\ pc = done => LevelsAsDeclared(parts[1]) /\ RepetitionsAfterLevels(parts[2])

\* The authoritative reader of readers/rap.rs alone.
AuthoritativeAsDeclared ==
  TablesAsInFile("level_repetitions", "tables")

\* C30: both compression-part readers, that of readers/rap.rs and the earlier draft of
\* readers.rs, read exactly `level count` 16-bit values after the level count: the level
\* values have the declared length and the file's order, no read of a whole file fails,
\* and the level-repetition table is read from the byte after the last level value.
C30_BothAsDeclared ==
  /\ TablesAsInFile("level_repetitions", "tables")
  /\ TablesAsInFile("draft_level_repetitions", "draft_tables")
  /\ opened.st # "err"

====
